---- MODULE Spec2Model ----
(***************************************************************************)
(* Model of the workload-schedule operator: the WorkloadSchedule           *)
(* reconciler (internal/controller/workloadschedule_controller.go) and the *)
(* pod mutating webhook (internal/webhook/v1/pod_webhook.go).              *)
(*                                                                         *)
(* A handler invocation (Reconcile, Default) is one action.  What the API  *)
(* server, the time API and other actors answer during the invocation is   *)
(* drawn with \E inside the action.                                        *)
(***************************************************************************)
EXTENDS Integers, Sequences, FiniteSets, TLC

\* ------------------------------------------------------------------ bounds
\* Events explored per behaviour: handler invocations (Reconcile, Default),
\* failed calls (errors the API server or the time API answers an invocation),
\* and writes of users and other actors (creating or deleting a schedule
\* object, writing a deployment).
MaxEvents == 3
\* Largest replica count another actor gives the target deployment.
MaxReplicas == 1

\* ------------------------------------------------------- program constants
FinalizerName == "workloadschedule.infra.illumin.com/finalizer"
\* RequeueInterval, in seconds.
RequeueInterval == 60
ConditionTypeReady == "Ready"
ConditionTypeSynced == "Synced"
ActiveLabel == "schedule.illumin.com/active"
ActiveEnvVar == "WORKLOAD_SCHEDULE_ACTIVE"
\* http.StatusOK
StatusOK == 200

\* A nil error.
Nil == "nil"

\* ------------------------------------------------------------- data model
\* Go pointers (*int32, *metav1.Time): nil, or a value.
NilPtr == [nil |-> TRUE, v |-> 0]
Ptr(x) == [nil |-> FALSE, v |-> x]

\* A string built by fmt.Sprintf or Time.Format: its format and its arguments.
\* The empty string is the empty format.
Str(f, a) == [fmt |-> f, args |-> a]
EmptyStr == Str("", <<>>)

\* The zero value of WorkloadScheduleStatus.
ZeroStatus ==
  [ currentLocalTime   |-> EmptyStr,
    withinActiveWindow |-> FALSE,
    lastScaleAction    |-> EmptyStr,
    lastSyncTime       |-> NilPtr,
    currentReplicas    |-> 0,
    conditions         |-> <<>> ]

\* WorkloadScheduleSpec.
MkSpec(tz, s, e, ns, dep, r) ==
  [ timezone |-> tz, startHour |-> s, endHour |-> e,
    targetNamespace |-> ns, targetDeployment |-> dep, replicasWhenActive |-> r ]

\* The specs users author in this model: the README's window [9,17); a window
\* that would wrap midnight; a schedule for another namespace.
SpecSamples(n) ==
  IF n = "ws1"
  THEN { MkSpec("America/Toronto", 9, 17, "demo", "my-app", 2) }
  ELSE { MkSpec("America/Toronto", 17, 9, "demo", "my-app", 1),
         MkSpec("Europe/London", 9, 17, "other", "my-app", 1) }

\* Identities of the schedule objects, namespaces of the cluster.
Names == {"ws1", "ws2"}
Namespaces == {"demo", "other"}

\* A WorkloadSchedule object as the API server holds it (exists = FALSE: no
\* object under that identity).
NoObject ==
  [ exists |-> FALSE, spec |-> MkSpec("", 0, 0, "", "", 0),
    finalizers |-> <<>>, deletionTimestamp |-> FALSE, status |-> ZeroStatus ]
NewObject(sp) ==
  [ exists |-> TRUE, spec |-> sp,
    finalizers |-> <<>>, deletionTimestamp |-> FALSE, status |-> ZeroStatus ]

\* A Deployment: absent, or present with Spec.Replicas (*int32).
NoDeployment == [exists |-> FALSE, replicas |-> NilPtr]
Deployment(r) == [exists |-> TRUE, replicas |-> r]
ReplicaValues == {NilPtr} \cup {Ptr(k) : k \in 0..MaxReplicas}

\* ctrl.Result
Result(rq, after) == [Requeue |-> rq, RequeueAfter |-> after]

\* One client / HTTP call of a handler invocation and how it ended: "ok",
\* "NotFound", "AlreadyExists" or "error" (any other failure).
Call(op, res) == [op |-> op, res |-> res]

\* How many of the calls failed with an error other than NotFound and
\* AlreadyExists.
Errors(calls) == Cardinality({i \in 1..Len(calls) : calls[i].res = "error"})

\* ------------------------------------------------------------ time source
\* A wall-clock time; only what the code reads or reports is kept.
Time(h, m) == [hour |-> h, minute |-> m]

\* Time.Format(time.RFC3339): the text of the time.
FormatRFC3339(t) == Str("RFC3339", <<t.hour, t.minute>>)

\* time.Parse(time.RFC3339, s): fails on text that is no RFC3339 time.
ParseRFC3339(s) ==
  IF /\ s.fmt = "RFC3339"
     /\ Len(s.args) = 2
     /\ s.args[1] \in 0..23
     /\ s.args[2] \in 0..59
  THEN [err |-> Nil, time |-> Time(s.args[1], s.args[2])]
  ELSE [err |-> "parse error", time |-> Time(0, 0)]

\* What the time API may answer: the transport outcome, the HTTP status,
\* whether the body is JSON, and the body's datetime field.
Response(tr, code, json, dt) ==
  [transport |-> tr, code |-> code, json |-> json, datetime |-> dt]

Responses ==
  { Response("ok", 200, TRUE, FormatRFC3339(Time(9, 30))),
    Response("ok", 200, TRUE, FormatRFC3339(Time(17, 0))),
    Response("error", 0, FALSE, EmptyStr),
    Response("ok", 500, TRUE, EmptyStr),
    Response("ok", 200, FALSE, EmptyStr),
    Response("ok", 200, TRUE, Str("not a time", <<>>)) }

\* getCurrentTime: the current time in the zone, or an error.
getCurrentTime(timezone, resp) ==
  IF resp.transport # "ok"
  THEN [time |-> Time(0, 0), err |-> "failed to call World Time API"]
  ELSE IF resp.code # StatusOK
  THEN [time |-> Time(0, 0), err |-> "World Time API returned status"]
  ELSE IF ~resp.json
  THEN [time |-> Time(0, 0), err |-> "failed to decode World Time API response"]
  ELSE LET p == ParseRFC3339(resp.datetime)
       IN  IF p.err # Nil
           THEN [time |-> Time(0, 0), err |-> "failed to parse datetime"]
           ELSE [time |-> p.time, err |-> Nil]

\* -------------------------------------------------------- WindowEvaluator
\* isWithinActiveWindow: [startHour, endHour) on the hour of currentTime.
isWithinActiveWindowGT(currentTime, startHour, endHour) ==
  currentTime.hour > startHour /\ currentTime.hour < endHour

\* isWithinActiveWindow with a window that wraps midnight when startHour >=
\* endHour.
isWithinActiveWindowWraps(currentTime, startHour, endHour) ==
  IF startHour < endHour
  THEN currentTime.hour >= startHour /\ currentTime.hour < endHour
  ELSE currentTime.hour >= startHour \/ currentTime.hour < endHour

isWithinActiveWindow(currentTime, startHour, endHour) ==
  LET currentHour == currentTime.hour
  IN  currentHour >= startHour /\ currentHour < endHour

\* ------------------------------------------------------- LifecycleManager
\* controllerutil.ContainsFinalizer / AddFinalizer / RemoveFinalizer on the
\* object's finalizer list.
ContainsFinalizer(fs, f) == \E i \in 1..Len(fs) : fs[i] = f

AddFinalizerForgets(fs, f) == fs

AddFinalizerTwice(fs, f) == Append(Append(fs, f), f)

AddFinalizer(fs, f) == IF ContainsFinalizer(fs, f) THEN fs ELSE Append(fs, f)

RemoveFinalizer(fs, f) == SelectSeq(fs, LAMBDA x : x # f)

\* How many entries of a finalizer list are f.
CountFinalizer(fs, f) == Cardinality({i \in 1..Len(fs) : fs[i] = f})

\* cleanupResources: logs only; the target deployment is left as it is.
cleanupResourcesReset(deps) ==
  [ err |-> Nil,
    deployments |-> [k \in DOMAIN deps |->
                       IF deps[k].exists THEN [deps[k] EXCEPT !.replicas = Ptr(1)] ELSE deps[k]] ]

cleanupResourcesFails(deps) == [err |-> "cleanup failed", deployments |-> deps]

cleanupResources(deps) == [err |-> Nil, deployments |-> deps]

\* --------------------------------------------------------- StatusReporter
Condition(t, s, r, m) == [type |-> t, status |-> s, reason |-> r, message |-> m]

\* Index of the condition of type t in conds, 0 when there is none.
FindStatusCondition(conds, t) ==
  IF \E i \in 1..Len(conds) : conds[i].type = t
  THEN CHOOSE i \in 1..Len(conds) :
         /\ conds[i].type = t
         /\ \A j \in 1..(i - 1) : conds[j].type # t
  ELSE 0

\* meta.SetStatusCondition: replace the condition of that type, or append.
SetStatusConditionAppends(conds, c) == Append(conds, c)

SetStatusCondition(conds, c) ==
  LET i == FindStatusCondition(conds, c.type)
  IN  IF i = 0 THEN Append(conds, c) ELSE [conds EXCEPT ![i] = c]

\* setCondition on the in-memory object's status.
setConditionFalseResets(st, conditionType, status, reason, message) ==
  [ (IF status = "False"
     THEN [st EXCEPT !.withinActiveWindow = FALSE, !.currentReplicas = 0]
     ELSE st)
    EXCEPT !.conditions =
      SetStatusCondition(@, Condition(conditionType, status, reason, message)) ]

setConditionClearsOthers(st, conditionType, status, reason, message) ==
  [st EXCEPT !.conditions = <<Condition(conditionType, status, reason, message)>>]

setCondition(st, conditionType, status, reason, message) ==
  [st EXCEPT !.conditions =
     SetStatusCondition(@, Condition(conditionType, status, reason, message))]

\* Whether conds holds a condition of that type with that status and reason.
HasCondition(conds, t, s, r) ==
  \E i \in 1..Len(conds) :
    conds[i].type = t /\ conds[i].status = s /\ conds[i].reason = r

\* ---------------------------------------------------------- ScalingEngine
\* The deployments of the cluster are keyed by <<namespace, name>>.
DeploymentNames == {"my-app"}
TargetKeys == Namespaces \X DeploymentNames

\* What the API server answers to scaleDeployment's Get and Update.
ScaleEnvs == [getErr : BOOLEAN, updateErr : BOOLEAN]

\* currentReplicas of scaleDeployment (lines 248-251): an unset count is 0.
CurrentReplicasUnsetIsOne(deployment) ==
  IF deployment.replicas.nil THEN 1 ELSE deployment.replicas.v

CurrentReplicas(deployment) ==
  IF deployment.replicas.nil THEN 0 ELSE deployment.replicas.v

\* scaleDeployment taking a missing deployment for nothing to do.
scaleDeploymentMissingIsDone(deps, namespace, deploymentName, desiredReplicas, env) ==
  LET key == <<namespace, deploymentName>>
      deployment == deps[key]
      currentReplicas == CurrentReplicas(deployment)
  IN  IF env.getErr
      THEN [ action |-> Str("error", <<>>), replicas |-> 0,
             err |-> "failed to get deployment", deployments |-> deps,
             calls |-> <<Call("Get Deployment", "error")>> ]
      ELSE IF ~deployment.exists
      THEN [ action |-> Str("deployment not found", <<>>), replicas |-> 0,
             err |-> Nil, deployments |-> deps,
             calls |-> <<Call("Get Deployment", "NotFound")>> ]
      ELSE IF currentReplicas = desiredReplicas
      THEN [ action |-> Str("no change needed (replicas=%d)", <<desiredReplicas>>),
             replicas |-> desiredReplicas,
             err |-> Nil, deployments |-> deps,
             calls |-> <<Call("Get Deployment", "ok")>> ]
      ELSE IF env.updateErr
      THEN [ action |-> Str("scale failed", <<>>), replicas |-> currentReplicas,
             err |-> "failed to scale deployment", deployments |-> deps,
             calls |-> <<Call("Get Deployment", "ok"), Call("Update Deployment", "error")>> ]
      ELSE [ action |-> Str("scaled from %d to %d", <<currentReplicas, desiredReplicas>>),
             replicas |-> desiredReplicas,
             err |-> Nil,
             deployments |-> [deps EXCEPT ![key] = Deployment(Ptr(desiredReplicas))],
             calls |-> <<Call("Get Deployment", "ok"), Call("Update Deployment", "ok")>> ]

\* scaleDeployment without the check of line 254.
scaleDeploymentAlwaysUpdates(deps, namespace, deploymentName, desiredReplicas, env) ==
  LET key == <<namespace, deploymentName>>
      deployment == deps[key]
      currentReplicas == CurrentReplicas(deployment)
  IN  IF env.getErr
      THEN [ action |-> Str("error", <<>>), replicas |-> 0,
             err |-> "failed to get deployment", deployments |-> deps,
             calls |-> <<Call("Get Deployment", "error")>> ]
      ELSE IF ~deployment.exists
      THEN [ action |-> Str("deployment not found", <<>>), replicas |-> 0,
             err |-> "deployment not found", deployments |-> deps,
             calls |-> <<Call("Get Deployment", "NotFound")>> ]
      ELSE IF env.updateErr
      THEN [ action |-> Str("scale failed", <<>>), replicas |-> currentReplicas,
             err |-> "failed to scale deployment", deployments |-> deps,
             calls |-> <<Call("Get Deployment", "ok"), Call("Update Deployment", "error")>> ]
      ELSE [ action |-> Str("scaled from %d to %d", <<currentReplicas, desiredReplicas>>),
             replicas |-> desiredReplicas,
             err |-> Nil,
             deployments |-> [deps EXCEPT ![key] = Deployment(Ptr(desiredReplicas))],
             calls |-> <<Call("Get Deployment", "ok"), Call("Update Deployment", "ok")>> ]

\* scaleDeployment reporting, after a write, the count it found.
scaleDeploymentReportsOld(deps, namespace, deploymentName, desiredReplicas, env) ==
  LET key == <<namespace, deploymentName>>
      deployment == deps[key]
      currentReplicas == CurrentReplicas(deployment)
  IN  IF env.getErr
      THEN [ action |-> Str("error", <<>>), replicas |-> 0,
             err |-> "failed to get deployment", deployments |-> deps,
             calls |-> <<Call("Get Deployment", "error")>> ]
      ELSE IF ~deployment.exists
      THEN [ action |-> Str("deployment not found", <<>>), replicas |-> 0,
             err |-> "deployment not found", deployments |-> deps,
             calls |-> <<Call("Get Deployment", "NotFound")>> ]
      ELSE IF currentReplicas = desiredReplicas
      THEN [ action |-> Str("no change needed (replicas=%d)", <<desiredReplicas>>),
             replicas |-> desiredReplicas,
             err |-> Nil, deployments |-> deps,
             calls |-> <<Call("Get Deployment", "ok")>> ]
      ELSE IF env.updateErr
      THEN [ action |-> Str("scale failed", <<>>), replicas |-> currentReplicas,
             err |-> "failed to scale deployment", deployments |-> deps,
             calls |-> <<Call("Get Deployment", "ok"), Call("Update Deployment", "error")>> ]
      ELSE [ action |-> Str("scaled from %d to %d", <<currentReplicas, desiredReplicas>>),
             replicas |-> currentReplicas,
             err |-> Nil,
             deployments |-> [deps EXCEPT ![key] = Deployment(Ptr(desiredReplicas))],
             calls |-> <<Call("Get Deployment", "ok"), Call("Update Deployment", "ok")>> ]

\* scaleDeployment(namespace, deploymentName, desiredReplicas) on the
\* deployments deps: the action text, the observed count, the error, the
\* deployments afterwards and the calls made.
scaleDeployment(deps, namespace, deploymentName, desiredReplicas, env) ==
  LET key == <<namespace, deploymentName>>
      deployment == deps[key]
      currentReplicas == CurrentReplicas(deployment)
  IN  IF env.getErr
      THEN [ action |-> Str("error", <<>>), replicas |-> 0,
             err |-> "failed to get deployment", deployments |-> deps,
             calls |-> <<Call("Get Deployment", "error")>> ]
      ELSE IF ~deployment.exists
      THEN [ action |-> Str("deployment not found", <<>>), replicas |-> 0,
             err |-> "deployment not found", deployments |-> deps,
             calls |-> <<Call("Get Deployment", "NotFound")>> ]
      ELSE IF currentReplicas = desiredReplicas
      THEN [ action |-> Str("no change needed (replicas=%d)", <<desiredReplicas>>),
             replicas |-> desiredReplicas,
             err |-> Nil, deployments |-> deps,
             calls |-> <<Call("Get Deployment", "ok")>> ]
      ELSE IF env.updateErr
      THEN [ action |-> Str("scale failed", <<>>), replicas |-> currentReplicas,
             err |-> "failed to scale deployment", deployments |-> deps,
             calls |-> <<Call("Get Deployment", "ok"), Call("Update Deployment", "error")>> ]
      ELSE [ action |-> Str("scaled from %d to %d", <<currentReplicas, desiredReplicas>>),
             replicas |-> desiredReplicas,
             err |-> Nil,
             deployments |-> [deps EXCEPT ![key] = Deployment(Ptr(desiredReplicas))],
             calls |-> <<Call("Get Deployment", "ok"), Call("Update Deployment", "ok")>> ]

\* ------------------------------------------------------------- namespace
\* What the API server answers to ensureNamespace's Get and Create; create =
\* "exists": another actor created the namespace after the Get.
NamespaceEnvs == [getErr : BOOLEAN, create : {"ok", "exists", "error"}]

\* ensureNamespace on the namespaces nss: the error, the namespaces afterwards
\* and the calls made.
ensureNamespaceIgnoresCreateError(nss, namespace, env) ==
  IF ~env.getErr /\ namespace \in nss
  THEN [err |-> Nil, namespaces |-> nss, calls |-> <<Call("Get Namespace", "ok")>>]
  ELSE IF env.getErr
  THEN [ err |-> "failed to check namespace", namespaces |-> nss,
         calls |-> <<Call("Get Namespace", "error")>> ]
  ELSE IF env.create = "error"
  THEN [ err |-> Nil, namespaces |-> nss,
         calls |-> <<Call("Get Namespace", "NotFound"), Call("Create Namespace", "error")>> ]
  ELSE [ err |-> Nil, namespaces |-> nss \cup {namespace},
         calls |-> << Call("Get Namespace", "NotFound"),
                      Call("Create Namespace", IF env.create = "ok" THEN "ok" ELSE "AlreadyExists") >> ]

\* ensureNamespace taking the AlreadyExists answer of the Create for a failure.
ensureNamespaceStrictCreate(nss, namespace, env) ==
  IF ~env.getErr /\ namespace \in nss
  THEN [err |-> Nil, namespaces |-> nss, calls |-> <<Call("Get Namespace", "ok")>>]
  ELSE IF env.getErr
  THEN [ err |-> "failed to check namespace", namespaces |-> nss,
         calls |-> <<Call("Get Namespace", "error")>> ]
  ELSE IF env.create = "error"
  THEN [ err |-> "failed to create namespace", namespaces |-> nss,
         calls |-> <<Call("Get Namespace", "NotFound"), Call("Create Namespace", "error")>> ]
  ELSE IF env.create = "exists"
  THEN [ err |-> "failed to create namespace", namespaces |-> nss \cup {namespace},
         calls |-> << Call("Get Namespace", "NotFound"),
                      Call("Create Namespace", "AlreadyExists") >> ]
  ELSE [ err |-> Nil, namespaces |-> nss \cup {namespace},
         calls |-> <<Call("Get Namespace", "NotFound"), Call("Create Namespace", "ok")>> ]

ensureNamespace(nss, namespace, env) ==
  IF ~env.getErr /\ namespace \in nss
  THEN [err |-> Nil, namespaces |-> nss, calls |-> <<Call("Get Namespace", "ok")>>]
  ELSE IF env.getErr
  THEN [ err |-> "failed to check namespace", namespaces |-> nss,
         calls |-> <<Call("Get Namespace", "error")>> ]
  ELSE IF env.create = "error"
  THEN [ err |-> "failed to create namespace", namespaces |-> nss,
         calls |-> <<Call("Get Namespace", "NotFound"), Call("Create Namespace", "error")>> ]
  ELSE [ err |-> Nil, namespaces |-> nss \cup {namespace},
         calls |-> << Call("Get Namespace", "NotFound"),
                      Call("Create Namespace", IF env.create = "ok" THEN "ok" ELSE "AlreadyExists") >> ]

\* ------------------------------------------------------------------ state
VARIABLES
  ws,           \* the WorkloadSchedule objects the API server holds, by identity
  deployments,  \* the Deployments of the cluster, by <<namespace, name>>
  namespaces,   \* the namespaces that exist
  passes,       \* Reconcile invocations so far; the reconciler's clock reads
                \* (metav1.Now()) the number of the running invocation
  events,       \* events so far (see MaxEvents)
  rec,          \* what the last step did, if it was a Reconcile invocation
  adm,          \* what the last step did, if it was a Default invocation
  scaleLog,     \* the latest scaleDeployment calls made on their own
  win           \* the latest isWithinActiveWindow evaluation made on its own

vars == <<ws, deployments, namespaces, passes, events, rec, adm, scaleLog, win>>

\* The environment is quiet once the events are used up: no call fails any
\* more, and users and other actors write nothing more.
Quiet == events = MaxEvents

\* What the API server and the time API may answer to the calls of a Reconcile
\* invocation: anything, but no failure in the quiet environment.
WriteAnswers == IF Quiet THEN {TRUE} ELSE BOOLEAN
NamespaceAnswers ==
  IF Quiet THEN {e \in NamespaceEnvs : ~e.getErr /\ e.create = "ok"} ELSE NamespaceEnvs
TimeAnswers(timezone) ==
  IF Quiet THEN {r \in Responses : getCurrentTime(timezone, r).err = Nil} ELSE Responses
ScaleAnswers ==
  IF Quiet THEN {e \in ScaleEnvs : ~e.getErr /\ ~e.updateErr} ELSE ScaleEnvs

\* win before any evaluation: the inputs (two times of day, the window), and
\* the results once the evaluation is done.
Window(t, u, s, e) ==
  [ time |-> t, other |-> u, startHour |-> s, endHour |-> e,
    done |-> FALSE, active |-> FALSE, activeOther |-> FALSE ]
NoWin == Window(Time(0, 0), Time(0, 0), 0, 0)

\* No time fetched.
NoFetch == [time |-> Time(0, 0), err |-> "not called"]

\* rec when the last step was no Reconcile invocation.
NoRec ==
  [ name |-> "", before |-> NoObject,
    deploymentsBefore |-> [k \in TargetKeys |-> NoDeployment],
    namespacesBefore |-> {},
    calls |-> <<>>, result |-> Result(FALSE, 0), err |-> Nil,
    submitted |-> ZeroStatus, fetched |-> NoFetch ]

\* No object under admission.
NoPod ==
  [isPod |-> FALSE, namespace |-> "", labels |-> [k \in {} |-> ""],
   containers |-> <<>>, initContainers |-> <<>>]

\* adm when the last step was no Default invocation.
NoAdm ==
  [ admitted |-> FALSE, in |-> NoPod, out |-> NoPod, err |-> Nil, calls |-> <<>>,
    items |-> <<>>, matched |-> "" ]

\* The end of an invocation that undoes its deployment write when it returns
\* an error.
ReturnRollsBack(n, obj, deps, nss, calls, result, err, submitted, fetched) ==
  /\ ws' = [ws EXCEPT ![n] = obj]
  /\ deployments' = IF err # Nil THEN deployments ELSE deps
  /\ namespaces' = nss
  /\ rec' = [ name |-> n, before |-> IF Quiet THEN NoObject ELSE ws[n],
              deploymentsBefore |-> deployments,
              namespacesBefore |-> namespaces,
              calls |-> calls, result |-> result, err |-> err,
              submitted |-> submitted, fetched |-> fetched ]

\* ------------------------------------------------------------- Reconciler
\* The end of a Reconcile invocation for identity n: the object, deployments
\* and namespaces the API server holds afterwards, and what the invocation
\* found (before; kept while the environment is not quiet), did (calls, the
\* time it fetched, the status it submitted) and returned.
Return(n, obj, deps, nss, calls, result, err, submitted, fetched) ==
  /\ ws' = [ws EXCEPT ![n] = obj]
  /\ deployments' = deps
  /\ namespaces' = nss
  /\ rec' = [ name |-> n, before |-> IF Quiet THEN NoObject ELSE ws[n],
              deploymentsBefore |-> deployments,
              namespacesBefore |-> namespaces,
              calls |-> calls, result |-> result, err |-> err,
              submitted |-> submitted, fetched |-> fetched ]

\* r.Update(ctx, workloadSchedule) after the finalizer list changed to fs: the
\* object the API server holds afterwards.  An object whose deletion is
\* requested and whose last finalizer is removed is deleted.
UpdateFinalizersResetsWindow(obj, fs) ==
  IF obj.deletionTimestamp /\ fs = <<>>
  THEN NoObject
  ELSE [obj EXCEPT !.finalizers = fs, !.spec.startHour = 0]

UpdateFinalizers(obj, fs) ==
  IF obj.deletionTimestamp /\ fs = <<>>
  THEN NoObject
  ELSE [obj EXCEPT !.finalizers = fs]

\* A failure branch of Reconcile (lines 131-135, 142-146, 165-169): set the
\* condition on the object as read, try to write the status, return the error
\* with the fixed delay.
FailWithConditionNoDelay(n, obj, deps, nss, calls, conditionType, reason, err, fetched) ==
  LET st == setCondition(obj.status, conditionType, "False", reason, err)
  IN  \E statusOk \in WriteAnswers :
        Return(n, IF statusOk THEN [obj EXCEPT !.status = st] ELSE obj, deps, nss,
               Append(calls, Call("Update Status", IF statusOk THEN "ok" ELSE "error")),
               Result(FALSE, 0), err, st, fetched)

FailWithConditionNoStatus(n, obj, deps, nss, calls, conditionType, reason, err, fetched) ==
  Return(n, obj, deps, nss, calls, Result(FALSE, RequeueInterval), err, ZeroStatus, fetched)

FailWithConditionScalesToZero(n, obj, deps, nss, calls, conditionType, reason, err, fetched) ==
  LET st  == setCondition(obj.status, conditionType, "False", reason, err)
      key == <<obj.spec.targetNamespace, obj.spec.targetDeployment>>
      off == IF deps[key].exists THEN [deps EXCEPT ![key] = Deployment(Ptr(0))] ELSE deps
      c   == calls \o <<Call("Get Deployment", "ok"), Call("Update Deployment", "ok")>>
  IN  \E statusOk \in WriteAnswers :
        Return(n, IF statusOk THEN [obj EXCEPT !.status = st] ELSE obj, off, nss,
               Append(c, Call("Update Status", IF statusOk THEN "ok" ELSE "error")),
               Result(FALSE, RequeueInterval), err, st, fetched)

FailWithCondition(n, obj, deps, nss, calls, conditionType, reason, err, fetched) ==
  LET st == setCondition(obj.status, conditionType, "False", reason, err)
  IN  \E statusOk \in WriteAnswers :
        Return(n, IF statusOk THEN [obj EXCEPT !.status = st] ELSE obj, deps, nss,
               Append(calls, Call("Update Status", IF statusOk THEN "ok" ELSE "error")),
               Result(FALSE, RequeueInterval), err, st, fetched)

\* desiredReplicas of Reconcile (lines 156-159).
DesiredReplicasAlways(withinActiveWindow, spec) == spec.replicasWhenActive

DesiredReplicas(withinActiveWindow, spec) ==
  IF withinActiveWindow THEN spec.replicasWhenActive ELSE 0

\* Reconcile from line 128 on: namespace, time, window, scaling, status.
Sync(n, obj, calls0) ==
  \E nsEnv \in NamespaceAnswers :
    LET e  == ensureNamespace(namespaces, obj.spec.targetNamespace, nsEnv)
        c1 == calls0 \o e.calls
    IN
    IF e.err # Nil
    THEN FailWithCondition(n, obj, deployments, e.namespaces, c1,
                           ConditionTypeReady, "NamespaceError", e.err, NoFetch)
    ELSE
    \E resp \in TimeAnswers(obj.spec.timezone) :
      LET t  == getCurrentTime(obj.spec.timezone, resp)
          c2 == Append(c1, Call("HTTP GET", IF t.err = Nil THEN "ok" ELSE "error"))
      IN
      IF t.err # Nil
      THEN FailWithCondition(n, obj, deployments, e.namespaces, c2,
                             ConditionTypeSynced, "TimeAPIError", t.err, t)
      ELSE
      \E scEnv \in ScaleAnswers :
        LET withinActiveWindow ==
              isWithinActiveWindow(t.time, obj.spec.startHour, obj.spec.endHour)
            desiredReplicas == DesiredReplicas(withinActiveWindow, obj.spec)
            sc == scaleDeployment(deployments, obj.spec.targetNamespace,
                                  obj.spec.targetDeployment, desiredReplicas, scEnv)
            c3 == c2 \o sc.calls
        IN
        IF sc.err # Nil
        THEN FailWithCondition(n, obj, sc.deployments, e.namespaces, c3,
                               ConditionTypeReady, "ScaleError", sc.err, t)
        ELSE
        LET st1 == [ obj.status EXCEPT
                       !.currentLocalTime   = FormatRFC3339(t.time),
                       !.withinActiveWindow = withinActiveWindow,
                       !.lastScaleAction    = sc.action,
                       !.lastSyncTime       = Ptr(passes + 1),
                       !.currentReplicas    = sc.replicas ]
            st2 == setCondition(st1, ConditionTypeReady, "True", "Reconciled",
                                "Successfully reconciled")
            st3 == setCondition(st2, ConditionTypeSynced, "True", "Synced",
                                "Successfully synced with World Time API")
        IN
        \E statusOk \in WriteAnswers :
          IF ~statusOk
          THEN Return(n, obj, sc.deployments, e.namespaces,
                      Append(c3, Call("Update Status", "error")),
                      Result(FALSE, 0), "failed to update status", st3, t)
          ELSE Return(n, [obj EXCEPT !.status = st3], sc.deployments, e.namespaces,
                      Append(c3, Call("Update Status", "ok")),
                      Result(FALSE, RequeueInterval), Nil, st3, t)

\* Reconcile lines 89-96: the Get of the object failed (getErr) or found
\* nothing.
LoadFailureNotFoundIsError(n, getErr) ==
  Return(n, ws[n], deployments, namespaces,
         <<Call("Get WorkloadSchedule", IF getErr THEN "error" ELSE "NotFound")>>,
         Result(FALSE, 0), "failed to get WorkloadSchedule", ZeroStatus, NoFetch)

LoadFailure(n, getErr) ==
  IF getErr
  THEN Return(n, ws[n], deployments, namespaces,
              <<Call("Get WorkloadSchedule", "error")>>,
              Result(FALSE, 0), "failed to get WorkloadSchedule", ZeroStatus, NoFetch)
  ELSE Return(n, ws[n], deployments, namespaces,
              <<Call("Get WorkloadSchedule", "NotFound")>>,
              Result(FALSE, 0), Nil, ZeroStatus, NoFetch)

\* Reconcile lines 103-107 and 120-125: r.Update of the object with the
\* finalizer list fs, then return (deps: the deployments at that point;
\* done: the result when the write is accepted; err: the error when it is
\* rejected).
WriteFinalizersSwallowsError(n, obj, fs, deps, calls, done, err) ==
  \E updateOk \in WriteAnswers :
    IF ~updateOk
    THEN Return(n, obj, deps, namespaces,
                Append(calls, Call("Update WorkloadSchedule", "error")),
                done, Nil, ZeroStatus, NoFetch)
    ELSE Return(n, UpdateFinalizers(obj, fs), deps, namespaces,
                Append(calls, Call("Update WorkloadSchedule", "ok")),
                done, Nil, ZeroStatus, NoFetch)

WriteFinalizers(n, obj, fs, deps, calls, done, err) ==
  \E updateOk \in WriteAnswers :
    IF ~updateOk
    THEN Return(n, obj, deps, namespaces,
                Append(calls, Call("Update WorkloadSchedule", "error")),
                Result(FALSE, 0), err, ZeroStatus, NoFetch)
    ELSE Return(n, UpdateFinalizers(obj, fs), deps, namespaces,
                Append(calls, Call("Update WorkloadSchedule", "ok")),
                done, Nil, ZeroStatus, NoFetch)

\* Reconcile with the test of line 99 inverted.
ReconcilePassInverted(n) ==
  \E getErr \in {~ok : ok \in WriteAnswers} :
    IF getErr \/ ~ws[n].exists
    THEN LoadFailure(n, getErr)
    ELSE
    LET obj == ws[n]
        c0  == <<Call("Get WorkloadSchedule", "ok")>>
    IN
    IF obj.deletionTimestamp
    THEN IF ~ContainsFinalizer(obj.finalizers, FinalizerName)
         THEN WriteFinalizers(n, obj, AddFinalizer(obj.finalizers, FinalizerName),
                              deployments, c0,
                              Result(TRUE, 0), "failed to add finalizer")
         ELSE Sync(n, obj, c0)
    ELSE IF ContainsFinalizer(obj.finalizers, FinalizerName)
         THEN LET cl == cleanupResources(deployments)
                  c1 == Append(c0, Call("cleanupResources", IF cl.err = Nil THEN "ok" ELSE "error"))
              IN
              IF cl.err # Nil
              THEN Return(n, obj, cl.deployments, namespaces, c1,
                          Result(FALSE, 0), cl.err, ZeroStatus, NoFetch)
              ELSE WriteFinalizers(n, obj, RemoveFinalizer(obj.finalizers, FinalizerName),
                                   cl.deployments, c1,
                                   Result(FALSE, 0), "failed to remove finalizer")
         ELSE Return(n, obj, deployments, namespaces, c0, Result(FALSE, 0), Nil, ZeroStatus, NoFetch)

\* Reconcile(ctx, req) for the identity n, lines 83-126, then Sync.
ReconcilePass(n) ==
  \E getErr \in {~ok : ok \in WriteAnswers} :
    IF getErr \/ ~ws[n].exists
    THEN LoadFailure(n, getErr)
    ELSE
    LET obj == ws[n]
        c0  == <<Call("Get WorkloadSchedule", "ok")>>
    IN
    IF ~obj.deletionTimestamp
    THEN IF ~ContainsFinalizer(obj.finalizers, FinalizerName)
         THEN WriteFinalizers(n, obj, AddFinalizer(obj.finalizers, FinalizerName),
                              deployments, c0,
                              Result(TRUE, 0), "failed to add finalizer")
         ELSE Sync(n, obj, c0)
    ELSE IF ContainsFinalizer(obj.finalizers, FinalizerName)
         THEN LET cl == cleanupResources(deployments)
                  c1 == Append(c0, Call("cleanupResources", IF cl.err = Nil THEN "ok" ELSE "error"))
              IN
              IF cl.err # Nil
              THEN Return(n, obj, cl.deployments, namespaces, c1,
                          Result(FALSE, 0), cl.err, ZeroStatus, NoFetch)
              ELSE WriteFinalizers(n, obj, RemoveFinalizer(obj.finalizers, FinalizerName),
                                   cl.deployments, c1,
                                   Result(FALSE, 0), "failed to remove finalizer")
         ELSE Return(n, obj, deployments, namespaces, c0, Result(FALSE, 0), Nil, ZeroStatus, NoFetch)

\* The delivery layer invokes Reconcile for an identity (a watch event, a
\* requeue or the periodic timer); invocations are serialized.
Reconcile(n) ==
  /\ events < MaxEvents
  /\ passes' = passes + 1
  /\ ReconcilePass(n)
  /\ events + 1 + Errors(rec'.calls) <= MaxEvents
  /\ events' = events + 1 + Errors(rec'.calls)
  /\ adm' = NoAdm
  /\ UNCHANGED <<scaleLog, win>>

\* -------------------------------------------------------- AdmissionMutator
\* A container: its name and its Env list.
EnvVar(k, v) == [name |-> k, value |-> v]
Container(nm, env) == [name |-> nm, env |-> env]

\* No labels (a nil map and an empty map alike).
NoLabels == NoPod.labels

\* pod.Labels[k] = v
SetLabel(labels, k, v) ==
  [x \in (DOMAIN labels) \cup {k} |-> IF x = k THEN v ELSE labels[x]]

\* The object under admission: a Pod (isPod) or an object of another type.
Pod(ns, labels, cs, ics) ==
  [isPod |-> TRUE, namespace |-> ns, labels |-> labels,
   containers |-> cs, initContainers |-> ics]

\* The objects admitted in this model: a pod with labels, a stale active label
\* and containers with, without and with two entries named ActiveEnvVar; a
\* pod of another namespace; a pod without namespace; an object that is no
\* Pod.
PodSamples ==
  { Pod("demo", SetLabel(SetLabel(NoLabels, "app", "web"), ActiveLabel, "stale"),
        << Container("app", <<EnvVar("A", "1"), EnvVar(ActiveEnvVar, "stale"), EnvVar("B", "2")>>),
           Container("sidecar", <<EnvVar("A", "1")>>) >>,
        << Container("init", <<EnvVar(ActiveEnvVar, "stale"), EnvVar(ActiveEnvVar, "older")>>) >>),
    Pod("other", NoLabels, <<Container("app", <<EnvVar("A", "1")>>)>>, <<>>),
    Pod("", NoLabels, <<Container("app", <<>>)>>, <<Container("init", <<>>)>>),
    [Pod("demo", NoLabels, <<Container("app", <<>>)>>, <<>>) EXCEPT !.isPod = FALSE] }

\* The inner loop of Default over one container's Env (lines 122-133): update
\* the first entry named ActiveEnvVar, or append one.
UpsertEnvReplacesAll(env, value) == <<EnvVar(ActiveEnvVar, value)>>

UpsertEnvAppends(env, value) == Append(env, EnvVar(ActiveEnvVar, value))

UpsertEnv(env, value) ==
  IF \E j \in 1..Len(env) : env[j].name = ActiveEnvVar
  THEN LET j == CHOOSE j \in 1..Len(env) :
                  /\ env[j].name = ActiveEnvVar
                  /\ \A k \in 1..(j - 1) : env[k].name # ActiveEnvVar
       IN  [env EXCEPT ![j].value = value]
  ELSE Append(env, EnvVar(ActiveEnvVar, value))

\* The loop of Default over the listed items (lines 86-93): the index of the
\* first item whose Spec.TargetNamespace is the namespace, 0 when none is.
FirstMatchLast(items, namespace) ==
  IF \E i \in 1..Len(items) : items[i].spec.targetNamespace = namespace
  THEN CHOOSE i \in 1..Len(items) :
         /\ items[i].spec.targetNamespace = namespace
         /\ \A j \in (i + 1)..Len(items) : items[j].spec.targetNamespace # namespace
  ELSE 0

FirstMatchAny(items, namespace) == IF Len(items) > 0 THEN 1 ELSE 0

FirstMatch(items, namespace) ==
  IF \E i \in 1..Len(items) : items[i].spec.targetNamespace = namespace
  THEN CHOOSE i \in 1..Len(items) :
         /\ items[i].spec.targetNamespace = namespace
         /\ \A j \in 1..(i - 1) : items[j].spec.targetNamespace # namespace
  ELSE 0

\* activeValue of Default (lines 104-107).
ActiveValueAlwaysTrue(isActive) == "true"

ActiveValue(isActive) == IF isActive THEN "true" ELSE "false"

\* Default(ctx, obj) with the List call answering items (or failing): the
\* object afterwards, the error returned, the calls made and the index of the
\* matching item.
DefaultListsFirst(obj, items, listErr) ==
  IF ~obj.isPod
  THEN [obj |-> obj, err |-> "expected a Pod object", calls |-> <<>>, matched |-> 0]
  ELSE IF listErr
  THEN [obj |-> obj, err |-> Nil, calls |-> <<Call("List WorkloadSchedule", "error")>>,
        matched |-> 0]
  ELSE
  LET m  == FirstMatch(items, obj.namespace)
      c  == <<Call("List WorkloadSchedule", "ok")>>
  IN
  IF m = 0
  THEN [obj |-> obj, err |-> Nil, calls |-> c, matched |-> 0]
  ELSE
  LET isActive    == items[m].status.withinActiveWindow
      activeValue == ActiveValue(isActive)
      up(cs)      == [i \in 1..Len(cs) |-> [cs[i] EXCEPT !.env = UpsertEnv(@, activeValue)]]
  IN  [ obj |-> [obj EXCEPT !.labels = SetLabel(@, ActiveLabel, activeValue),
                            !.containers = up(@),
                            !.initContainers = up(@)],
        err |-> Nil, calls |-> c, matched |-> m ]

Default(obj, items, listErr) ==
  IF ~obj.isPod
  THEN [obj |-> obj, err |-> "expected a Pod object", calls |-> <<>>, matched |-> 0]
  ELSE IF obj.namespace = ""
  THEN [obj |-> obj, err |-> Nil, calls |-> <<>>, matched |-> 0]
  ELSE IF listErr
  THEN [obj |-> obj, err |-> Nil, calls |-> <<Call("List WorkloadSchedule", "error")>>,
        matched |-> 0]
  ELSE
  LET m  == FirstMatch(items, obj.namespace)
      c  == <<Call("List WorkloadSchedule", "ok")>>
  IN
  IF m = 0
  THEN [obj |-> obj, err |-> Nil, calls |-> c, matched |-> 0]
  ELSE
  LET isActive    == items[m].status.withinActiveWindow
      activeValue == ActiveValue(isActive)
      up(cs)      == [i \in 1..Len(cs) |-> [cs[i] EXCEPT !.env = UpsertEnv(@, activeValue)]]
  IN  [ obj |-> [obj EXCEPT !.labels = SetLabel(@, ActiveLabel, activeValue),
                            !.containers = up(@),
                            !.initContainers = up(@)],
        err |-> Nil, calls |-> c, matched |-> m ]

\* The orders in which a List call may enumerate the objects of S.
Orders(S) ==
  {s \in [1..Cardinality(S) -> S] : \A i, j \in 1..Cardinality(S) : i # j => s[i] # s[j]}

\* The API server admits a new object and calls the webhook.  The List call
\* answers the schedule objects held at that moment, in some order.
Admit ==
  /\ events < MaxEvents
  /\ \E p \in PodSamples, listErr \in BOOLEAN :
     \E order \in Orders({n \in Names : ws[n].exists}) :
       LET items == [i \in 1..Len(order) |-> ws[order[i]]]
           d     == Default(p, items, listErr)
           listed == \E i \in 1..Len(d.calls) : d.calls[i].res = "ok"
       IN  adm' = [ admitted |-> TRUE, in |-> p, out |-> d.obj, err |-> d.err,
                    calls |-> d.calls, items |-> IF listed THEN order ELSE <<>>,
                    matched |-> IF d.matched = 0 THEN "" ELSE order[d.matched] ]
  /\ events + 1 + Errors(adm'.calls) <= MaxEvents
  /\ events' = events + 1 + Errors(adm'.calls)
  /\ rec' = NoRec
  /\ UNCHANGED <<ws, deployments, namespaces, passes, scaleLog, win>>

\* ------------------------------------------------------------ environment
\* A user creates a schedule object.
UserCreate(n) ==
  /\ events < MaxEvents
  /\ events' = events + 1
  /\ ~ws[n].exists
  /\ \E sp \in SpecSamples(n) : ws' = [ws EXCEPT ![n] = NewObject(sp)]
  /\ rec' = NoRec /\ adm' = NoAdm
  /\ UNCHANGED <<deployments, namespaces, passes, scaleLog, win>>

\* A user deletes a schedule object: the API server sets the deletion
\* timestamp, or deletes the object at once when it has no finalizer.
UserDelete(n) ==
  /\ events < MaxEvents
  /\ events' = events + 1
  /\ ws[n].exists /\ ~ws[n].deletionTimestamp
  /\ ws' = [ws EXCEPT ![n] = IF @.finalizers = <<>> THEN NoObject
                             ELSE [@ EXCEPT !.deletionTimestamp = TRUE]]
  /\ rec' = NoRec /\ adm' = NoAdm
  /\ UNCHANGED <<deployments, namespaces, passes, scaleLog, win>>

\* Another actor creates, scales or deletes a deployment of an existing
\* namespace.
WriteDeployment(key) ==
  /\ key[1] \in namespaces
  /\ \E d \in {NoDeployment} \cup {Deployment(r) : r \in ReplicaValues} :
       /\ d # deployments[key]
       /\ deployments' = [deployments EXCEPT ![key] = d]

OtherActor(key) ==
  /\ events < MaxEvents
  /\ events' = events + 1
  /\ WriteDeployment(key)
  /\ rec' = NoRec /\ adm' = NoAdm
  /\ UNCHANGED <<ws, namespaces, passes, scaleLog, win>>

\* ---------------------------------------------------------- specification
\* The operator starts on a cluster that may already hold schedule objects,
\* registered (given the finalizer) by an earlier run of the operator.
Registered(sp) == [NewObject(sp) EXCEPT !.finalizers = <<FinalizerName>>]

Init ==
  /\ \E sp1 \in SpecSamples("ws1") :
     \E o2 \in {NoObject} \cup {Registered(sp) : sp \in SpecSamples("ws2")} :
       ws = [n \in Names |-> IF n = "ws1" THEN Registered(sp1) ELSE o2]
  /\ namespaces = {"demo"}
  /\ \E r \in ReplicaValues :
       deployments = [k \in TargetKeys |-> IF k[1] = "demo" THEN Deployment(r) ELSE NoDeployment]
  /\ events = 0
  /\ passes = 0
  /\ rec = NoRec
  /\ adm = NoAdm
  /\ scaleLog = <<>>
  /\ win = NoWin

\* The reconciler, the admission webhook and their environment.
Next ==
  \/ \E n \in Names : Reconcile(n)
  \/ Admit
  \/ \E n \in Names : UserCreate(n)
  \/ \E n \in Names : UserDelete(n)
  \/ \E key \in TargetKeys : OtherActor(key)

Spec == Init /\ [][Next]_vars

\* ------------------------------------------------- periodic re-triggering
\* From here on the environment is quiet.
Settle ==
  /\ events < MaxEvents
  /\ events' = MaxEvents
  /\ rec' = NoRec /\ adm' = NoAdm
  /\ UNCHANGED <<ws, deployments, namespaces, passes, scaleLog, win>>

\* In the quiet environment the delivery layer keeps invoking Reconcile for
\* the identity n: the RequeueAfter and Requeue results of lines 107, 135,
\* 146, 169 and 189, and the rerun the controller runtime gives an invocation
\* that returned an error.  No call of the invocation fails.  The clock is
\* read up to MaxEvents; later readings read the same.
Retrigger(n) ==
  /\ Quiet
  /\ passes' = IF passes < MaxEvents THEN passes + 1 ELSE passes
  /\ ReconcilePass(n)
  /\ Errors(rec'.calls) = 0
  /\ adm' = NoAdm
  /\ UNCHANGED <<events, scaleLog, win>>

\* The schedule objects stay live: no user deletes one.
NextHeal ==
  \/ \E n \in Names : Reconcile(n)
  \/ \E n \in Names : UserCreate(n)
  \/ \E key \in TargetKeys : OtherActor(key)
  \/ Settle
  \/ \E n \in Names : Retrigger(n)

SpecHeal ==
  /\ Init
  /\ [][NextHeal]_vars
  /\ \A n \in Names : WF_vars(Retrigger(n))

\* --------------------------------------------------------------- deletion
\* Users delete schedule objects and other actors write the deployments while
\* calls may fail; then the environment is quiet and the delivery layer keeps
\* invoking Reconcile.
NextGone ==
  \/ \E n \in Names : Reconcile(n)
  \/ \E n \in Names : UserDelete(n)
  \/ \E key \in TargetKeys : OtherActor(key)
  \/ Settle
  \/ \E n \in Names : Retrigger(n)

SpecGone ==
  /\ Init
  /\ [][NextGone]_vars
  /\ \A n \in Names : WF_vars(Retrigger(n))

\* ------------------------------------------- the WindowEvaluator on its own
\* Every hour of the day, every startHour and endHour the schema admits
\* (api/v1alpha1: startHour 0..23, endHour 0..24), two minutes of the hour.
InitWindow ==
  /\ \E h \in 0..23, s \in 0..23, e \in 0..24 :
     \E m \in {0, 59}, k \in {0, 30} :
       win = Window(Time(h, m), Time(h, k), s, e)
  /\ ws = [n \in Names |-> NoObject]
  /\ namespaces = {}
  /\ deployments = [k \in TargetKeys |-> NoDeployment]
  /\ passes = 0
  /\ events = 0
  /\ rec = NoRec
  /\ adm = NoAdm
  /\ scaleLog = <<>>

Evaluate ==
  /\ ~win.done
  /\ win' = [ win EXCEPT
               !.done = TRUE,
               !.active = isWithinActiveWindow(win.time, win.startHour, win.endHour),
               !.activeOther = isWithinActiveWindow(win.other, win.startHour, win.endHour) ]
  /\ UNCHANGED <<ws, deployments, namespaces, passes, events, rec, adm, scaleLog>>

NextWindow == Evaluate

SpecWindow == InitWindow /\ [][NextWindow]_vars

\* --------------------------------------------- the ScalingEngine on its own
\* One scaleDeployment call, as scaleLog keeps it.
ScaleEntry(key, desired, before, r) ==
  [ key |-> key, desiredReplicas |-> desired, before |-> before, action |-> r.action,
    replicas |-> r.replicas, err |-> r.err, calls |-> r.calls ]

InitScale ==
  /\ deployments \in [TargetKeys -> {NoDeployment} \cup {Deployment(r) : r \in ReplicaValues}]
  /\ namespaces = Namespaces
  /\ scaleLog = <<>>
  /\ ws = [n \in Names |-> NoObject]
  /\ passes = 0
  /\ events = 0
  /\ rec = NoRec
  /\ adm = NoAdm
  /\ win = NoWin

\* scaleDeployment is called; scaleLog keeps this call and the one before it
\* when nothing else wrote a deployment in between.
ScaleCall(key) ==
  /\ \E desired \in 0..(MaxReplicas + 1), env \in ScaleEnvs :
       LET r == scaleDeployment(deployments, key[1], key[2], desired, env)
           e == ScaleEntry(key, desired, deployments[key], r)
       IN  /\ deployments' = r.deployments
           /\ scaleLog' = IF scaleLog = <<>> THEN <<e>> ELSE <<scaleLog[Len(scaleLog)], e>>
  /\ UNCHANGED <<ws, namespaces, passes, events, rec, adm, win>>

\* Another actor writes a deployment between two calls.
ScaleOther(key) ==
  /\ WriteDeployment(key)
  /\ scaleLog' = <<>>
  /\ UNCHANGED <<ws, namespaces, passes, events, rec, adm, win>>

NextScale ==
  \/ \E key \in TargetKeys : ScaleCall(key)
  \/ \E key \in TargetKeys : ScaleOther(key)

SpecScale == InitScale /\ [][NextScale]_vars

\* ================================================================ claims
\* What the last Reconcile invocation did, read from its calls.
Called(op) == \E i \in 1..Len(rec.calls) : rec.calls[i].op = op
Answered(op, res) == \E i \in 1..Len(rec.calls) : rec.calls[i] = Call(op, res)

\* The replica count a reader of the deployment sees (unset reads as 0).
ReplicaCount(d) == IF d.replicas.nil THEN 0 ELSE d.replicas.v

\* The deployment a schedule spec targets.
TargetKey(sp) == <<sp.targetNamespace, sp.targetDeployment>>

\* The last step was a Reconcile invocation that found a live object carrying
\* the finalizer.
PassOnRegistered ==
  /\ rec.name # ""
  /\ Answered("Get WorkloadSchedule", "ok")
  /\ ~rec.before.deletionTimestamp
  /\ CountFinalizer(rec.before.finalizers, FinalizerName) >= 1

\* ... and every step of it succeeded: namespace ensure, time fetch, scaling,
\* status write.
EveryStepSucceeded ==
  /\ PassOnRegistered
  /\ Called("Get Namespace")
  /\ ~Answered("Get Namespace", "error") /\ ~Answered("Create Namespace", "error")
  /\ rec.fetched.err = Nil
  /\ Answered("Get Deployment", "ok") /\ ~Answered("Update Deployment", "error")
  /\ Answered("Update Status", "ok")

\* C1: after a pass on a live object with the finalizer in which every step
\* succeeded and the time fetch returned hour h, the persisted
\* status.withinActiveWindow is (startHour <= h < endHour), the target
\* deployment's replica count is replicasWhenActive when that flag is true and
\* 0 otherwise, and status.currentReplicas is that same count.
C1_SuccessfulPass ==
  EveryStepSucceeded =>
    LET sp     == rec.before.spec
        h      == rec.fetched.time.hour
        flag   == sp.startHour <= h /\ h < sp.endHour
        count  == IF flag THEN sp.replicasWhenActive ELSE 0
        target == deployments[TargetKey(sp)]
        st     == ws[rec.name].status
    IN  /\ st.withinActiveWindow = flag
        /\ target.exists
        /\ ReplicaCount(target) = count
        /\ st.currentReplicas = count

\* A successful pass at hour 9 of the window [9,17) scaled the target from
\* another count to replicasWhenActive = 2.
C1_Witness ==
  /\ EveryStepSucceeded
  /\ rec.fetched.time.hour = 9
  /\ rec.before.spec.startHour = 9 /\ rec.before.spec.endHour = 17
  /\ ReplicaCount(rec.deploymentsBefore[TargetKey(rec.before.spec)]) # 2
  /\ ReplicaCount(deployments[TargetKey(rec.before.spec)]) = 2
  /\ ws[rec.name].status.withinActiveWindow
  /\ ws[rec.name].status.currentReplicas = 2

\* C2: for every hour h in 0..23, startHour s in 0..23 and endHour e in 0..24,
\* isWithinActiveWindow is true exactly when h >= s and h < e; it is true at
\* h = s when s < e and false at h = e; and two times of the same hour with
\* different minutes get the same answer.
C2_WindowEvaluator ==
  win.done =>
    LET h == win.time.hour
        s == win.startHour
        e == win.endHour
    IN  /\ win.active = (h >= s /\ h < e)
        /\ (h = s /\ s < e) => win.active
        /\ (h = e) => ~win.active
        /\ win.other.hour = h => win.activeOther = win.active

\* The evaluation at 09:59 of the window [9,17) is active, as is the one at
\* 09:00 or 09:30.
C2_Witness ==
  /\ win.done
  /\ win.time = Time(9, 59) /\ win.other.minute # 59
  /\ win.startHour = 9 /\ win.endHour = 17
  /\ win.active /\ win.activeOther

\* Default was called on a pod of a non-empty namespace, its List call was
\* answered, and some listed schedule object targets the pod's namespace.
AdmittedIntoGoverned ==
  /\ adm.admitted
  /\ adm.in.isPod
  /\ adm.in.namespace # ""
  /\ adm.calls = <<Call("List WorkloadSchedule", "ok")>>
  /\ \E i \in 1..Len(adm.items) : ws[adm.items[i]].spec.targetNamespace = adm.in.namespace

\* The schedule object Default goes by: the first one listed that targets the
\* pod's namespace.
GoverningSchedule ==
  LET i == CHOOSE i \in 1..Len(adm.items) :
             /\ ws[adm.items[i]].spec.targetNamespace = adm.in.namespace
             /\ \A j \in 1..(i - 1) :
                  ws[adm.items[j]].spec.targetNamespace # adm.in.namespace
  IN  adm.items[i]

\* C3: when Default processes a pod whose non-empty namespace is the
\* targetNamespace of a listed schedule object, the pod's active label is
\* "true" if the persisted status.withinActiveWindow of the matched schedule
\* is true and "false" otherwise; Default makes no call but the List, so the
\* value is the status persisted at the moment of admission.
C3_LabelFromPersistedStatus ==
  AdmittedIntoGoverned =>
    /\ ActiveLabel \in DOMAIN adm.out.labels
    /\ ws[GoverningSchedule].status.withinActiveWindow
         => adm.out.labels[ActiveLabel] = "true"
    /\ ~ws[GoverningSchedule].status.withinActiveWindow
         => adm.out.labels[ActiveLabel] = "false"
    /\ \A i \in 1..Len(adm.calls) : adm.calls[i].op = "List WorkloadSchedule"
    /\ adm.err = Nil

\* A pod admitted after a successful pass at an in-window hour persisted
\* withinActiveWindow = true gets the label "true" in place of its stale one.
C3_Witness ==
  /\ AdmittedIntoGoverned
  /\ ws[GoverningSchedule].status.withinActiveWindow
  /\ ws[GoverningSchedule].status.lastSyncTime # NilPtr
  /\ ActiveLabel \in DOMAIN adm.in.labels
  /\ adm.in.labels[ActiveLabel] # "true"
  /\ adm.out.labels[ActiveLabel] = "true"

\* The latest scaleDeployment call, and the two latest when they name the same
\* deployment and the same desired count with no other write in between.
LastScale == scaleLog[Len(scaleLog)]
SameCallTwice ==
  /\ Len(scaleLog) = 2
  /\ scaleLog[1].key = scaleLog[2].key
  /\ scaleLog[1].desiredReplicas = scaleLog[2].desiredReplicas
IssuedWrite(e) == \E i \in 1..Len(e.calls) : e.calls[i].op = "Update Deployment"

\* C4 as stated: whenever scaleDeployment is called twice with the same
\* desired count and nothing else changes the target in between, the second
\* call issues no write and both calls report the desired count.
C4_Stated ==
  SameCallTwice =>
    /\ ~IssuedWrite(scaleLog[2])
    /\ scaleLog[1].replicas = scaleLog[1].desiredReplicas
    /\ scaleLog[2].replicas = scaleLog[2].desiredReplicas

\* C4, amended: when scaleDeployment is called twice with the same desired
\* count, nothing else changes the target in between and the first call
\* returns without error, the first call reports the desired count and the
\* second call issues no write; if the second call returns without error too
\* it reports the desired count as well.
C4_Idempotence ==
  (SameCallTwice /\ scaleLog[1].err = Nil) =>
    /\ scaleLog[1].replicas = scaleLog[1].desiredReplicas
    /\ ~IssuedWrite(scaleLog[2])
    /\ scaleLog[2].err = Nil => scaleLog[2].replicas = scaleLog[2].desiredReplicas

\* The first call scaled the deployment, the second found nothing to do.
C4_Witness ==
  /\ SameCallTwice
  /\ scaleLog[1].err = Nil /\ scaleLog[2].err = Nil
  /\ IssuedWrite(scaleLog[1]) /\ ~IssuedWrite(scaleLog[2])
  /\ scaleLog[1].replicas = 2 /\ scaleLog[2].replicas = 2

\* C5: after a scaleDeployment call with desired count D that returns without
\* error, the target deployment exists and a read of its replica count gives
\* D, whatever the count was before, an unset count included.
C5_Convergence ==
  (scaleLog # <<>> /\ LastScale.err = Nil) =>
    /\ deployments[LastScale.key].exists
    /\ ReplicaCount(deployments[LastScale.key]) = LastScale.desiredReplicas

\* A deployment with an unset count was scaled to 1.
C5_Witness ==
  /\ scaleLog # <<>>
  /\ LastScale.err = Nil
  /\ LastScale.before.exists /\ LastScale.before.replicas = NilPtr
  /\ LastScale.desiredReplicas = 1
  /\ ReplicaCount(deployments[LastScale.key]) = 1

\* The outcomes of the step of the last pass that failed, if one did.
NamespaceStepFailed ==
  Answered("Get Namespace", "error") \/ Answered("Create Namespace", "error")
TimeFetchFailed == rec.fetched.err \notin {Nil, NoFetch.err}
ScalingStepFailed ==
  \/ Answered("Get Deployment", "error")
  \/ Answered("Get Deployment", "NotFound")
  \/ Answered("Update Deployment", "error")
StepFailed ==
  PassOnRegistered /\ (NamespaceStepFailed \/ TimeFetchFailed \/ ScalingStepFailed)

\* The results Reconcile returns: the fixed delay, nothing, an immediate rerun.
Delayed == Result(FALSE, RequeueInterval)
NoRequeue == Result(FALSE, 0)
Rerun == Result(TRUE, 0)

\* C6 as stated: every Reconcile invocation ends in success with the fixed
\* delay, in an error with the fixed delay, or in a no-op without error when
\* the object does not exist; every invocation that finds the object requests
\* the fixed delay.
C6_Stated ==
  rec.name # "" =>
    /\ \/ rec.err = Nil /\ rec.result = Delayed
       \/ rec.err # Nil /\ rec.result = Delayed
       \/ Answered("Get WorkloadSchedule", "NotFound") /\ rec.err = Nil /\ rec.result = NoRequeue
    /\ Answered("Get WorkloadSchedule", "ok") => rec.result = Delayed

\* The ways a Reconcile invocation ends.
Outcomes ==
  << \* every step succeeded: no error, the fixed delay
     EveryStepSucceeded /\ rec.err = Nil /\ rec.result = Delayed,
     \* the namespace, time or scaling step failed: the error, the fixed delay
     StepFailed /\ rec.err # Nil /\ rec.result = Delayed,
     \* the final status write failed: the error, no requeue request
     /\ PassOnRegistered /\ ~StepFailed /\ Answered("Update Status", "error")
     /\ rec.err # Nil /\ rec.result = NoRequeue,
     \* the object does not exist: no error, no requeue request
     Answered("Get WorkloadSchedule", "NotFound") /\ rec.err = Nil /\ rec.result = NoRequeue,
     \* reading the object failed: the error, no requeue request
     Answered("Get WorkloadSchedule", "error") /\ rec.err # Nil /\ rec.result = NoRequeue,
     \* the finalizer was added: no error, an immediate rerun
     /\ Answered("Get WorkloadSchedule", "ok") /\ ~rec.before.deletionTimestamp
     /\ Answered("Update WorkloadSchedule", "ok")
     /\ rec.err = Nil /\ rec.result = Rerun,
     \* writing the finalizer list failed: the error, no requeue request
     /\ Answered("Get WorkloadSchedule", "ok") /\ Answered("Update WorkloadSchedule", "error")
     /\ rec.err # Nil /\ rec.result = NoRequeue,
     \* the object is being deleted: no error, no requeue request
     /\ Answered("Get WorkloadSchedule", "ok") /\ rec.before.deletionTimestamp
     /\ ~Answered("Update WorkloadSchedule", "error")
     /\ rec.err = Nil /\ rec.result = NoRequeue >>

\* C6, amended: every Reconcile invocation ends in exactly one of: success
\* with the fixed 60s delay; an error with the 60s delay when the namespace,
\* time or scaling step failed; an error and no requeue request when reading
\* the object, writing the finalizer list or the final status write failed; an
\* immediate rerun without error after the finalizer was added; no error and
\* no requeue request when the object does not exist or is being deleted.
C6_Outcomes ==
  rec.name # "" =>
    /\ Cardinality({i \in 1..Len(Outcomes) : Outcomes[i]}) = 1
    /\ RequeueInterval = 60

\* An invocation on an existing object added the finalizer and asked for an
\* immediate rerun, with no delay.
C6_Witness ==
  /\ rec.name # ""
  /\ rec.before.exists
  /\ rec.err = Nil
  /\ rec.result = Rerun

\* The last step was a Reconcile invocation that found a live object without
\* the finalizer.
PassOnUnregistered ==
  /\ rec.name # ""
  /\ Answered("Get WorkloadSchedule", "ok")
  /\ ~rec.before.deletionTimestamp
  /\ CountFinalizer(rec.before.finalizers, FinalizerName) = 0

\* C7: a pass on a live object without the finalizer reads the object, writes
\* it with the finalizer added and does nothing else (no namespace, time,
\* scaling or status work); once the write is accepted the object holds
\* exactly one finalizer entry and the pass asks for an immediate rerun (when
\* the write is rejected it returns the error).  A pass on a live object that
\* has the finalizer leaves the finalizer list as it is.
C7_FinalizerAdded ==
  /\ PassOnUnregistered =>
       /\ Len(rec.calls) = 2
       /\ rec.calls[2].op = "Update WorkloadSchedule"
       /\ rec.fetched = NoFetch
       /\ deployments = rec.deploymentsBefore
       /\ ws[rec.name].status = rec.before.status
       /\ Answered("Update WorkloadSchedule", "ok") =>
            /\ CountFinalizer(ws[rec.name].finalizers, FinalizerName) = 1
            /\ rec.err = Nil /\ rec.result = Rerun
       /\ ~Answered("Update WorkloadSchedule", "ok") =>
            /\ ws[rec.name] = rec.before
            /\ rec.err # Nil
  /\ PassOnRegistered =>
       /\ ~Called("Update WorkloadSchedule")
       /\ ws[rec.name].finalizers = rec.before.finalizers

\* A newly created object got its finalizer.
C7_Witness ==
  /\ PassOnUnregistered
  /\ Answered("Update WorkloadSchedule", "ok")
  /\ rec.before.finalizers = <<>>
  /\ ws[rec.name].finalizers = <<FinalizerName>>
  /\ rec.result = Rerun

\* The last step was a Reconcile invocation that found an object with a
\* deletion timestamp and the finalizer.
PassOnDeleting ==
  /\ rec.name # ""
  /\ Answered("Get WorkloadSchedule", "ok")
  /\ rec.before.deletionTimestamp
  /\ CountFinalizer(rec.before.finalizers, FinalizerName) >= 1

\* C8: a pass on an object with a deletion timestamp and the finalizer reads
\* the object, runs cleanupResources, writes the object with the finalizer
\* removed and stops without a requeue request: it makes no namespace call and
\* no time fetch, every deployment keeps its replica count, and no status is
\* written; once the write is accepted the finalizer is gone.
C8_FinalizerRemoved ==
  PassOnDeleting =>
    /\ Len(rec.calls) = 3
    /\ rec.calls[2] = Call("cleanupResources", "ok")
    /\ rec.calls[3].op = "Update WorkloadSchedule"
    /\ rec.fetched = NoFetch
    /\ deployments = rec.deploymentsBefore
    /\ ws[rec.name].exists => ws[rec.name].status = rec.before.status
    /\ rec.result = NoRequeue
    /\ Answered("Update WorkloadSchedule", "ok") =>
         /\ CountFinalizer(ws[rec.name].finalizers, FinalizerName) = 0
         /\ rec.err = Nil

\* The finalizer of a deleted schedule was removed, and its target, which an
\* earlier pass had scaled to 2, still has 2 replicas.
C8_Witness ==
  /\ PassOnDeleting
  /\ Answered("Update WorkloadSchedule", "ok")
  /\ ~ws[rec.name].exists
  /\ rec.before.status.currentReplicas = 2
  /\ ReplicaCount(deployments[TargetKey(rec.before.spec)]) = 2

\* C9: when the time fetch of a pass fails, the pass submits one status write
\* whose Synced condition is False with reason TimeAPIError, and that is what
\* persists once the write is accepted; status.currentReplicas and
\* status.withinActiveWindow keep the values they had before the pass, those of
\* the previous successful pass.
C9_TimeAPIError ==
  (PassOnRegistered /\ TimeFetchFailed) =>
    /\ rec.calls[Len(rec.calls)].op = "Update Status"
    /\ Cardinality({i \in 1..Len(rec.calls) : rec.calls[i].op = "Update Status"}) = 1
    /\ HasCondition(rec.submitted.conditions, ConditionTypeSynced, "False", "TimeAPIError")
    /\ Answered("Update Status", "ok") =>
         HasCondition(ws[rec.name].status.conditions, ConditionTypeSynced, "False", "TimeAPIError")
    /\ ws[rec.name].status.currentReplicas = rec.before.status.currentReplicas
    /\ ws[rec.name].status.withinActiveWindow = rec.before.status.withinActiveWindow

\* After a successful pass persisted 2 replicas and an active window, the time
\* API answered HTTP 500: Synced went from True to False, the rest stayed.
C9_Witness ==
  /\ PassOnRegistered
  /\ rec.fetched.err = "World Time API returned status"
  /\ HasCondition(rec.before.status.conditions, ConditionTypeSynced, "True", "Synced")
  /\ HasCondition(ws[rec.name].status.conditions, ConditionTypeSynced, "False", "TimeAPIError")
  /\ ws[rec.name].status.currentReplicas = 2
  /\ ws[rec.name].status.withinActiveWindow

\* C10 as stated: every Reconcile invocation that returns an error has
\* attempted a status write (which is the failing operation itself when the
\* final status write fails).
C10_Stated ==
  (rec.name # "" /\ rec.err # Nil) => Called("Update Status")

\* C10, amended: an invocation that returns an error because the namespace,
\* time or scaling step failed attempts, as its last call, a status write
\* carrying a False condition whose message is the error; an invocation that
\* returns an error because reading the object or writing the finalizer list
\* failed attempts no status write.
C10_StatusOnFailure ==
  (rec.name # "" /\ rec.err # Nil) =>
    /\ StepFailed =>
         /\ rec.calls[Len(rec.calls)].op = "Update Status"
         /\ \E i \in 1..Len(rec.submitted.conditions) :
              /\ rec.submitted.conditions[i].status = "False"
              /\ rec.submitted.conditions[i].message = rec.err
    /\ (Answered("Get WorkloadSchedule", "error") \/ Answered("Update WorkloadSchedule", "error")) =>
         ~Called("Update Status")
    /\ \/ StepFailed
       \/ Answered("Get WorkloadSchedule", "error")
       \/ Answered("Update WorkloadSchedule", "error")
       \/ Answered("Update Status", "error")

\* The target deployment was missing: the pass failed and its status write
\* persisted Ready = False, reason ScaleError.
C10_Witness ==
  /\ rec.name # "" /\ rec.err # Nil
  /\ Answered("Get Deployment", "NotFound")
  /\ Answered("Update Status", "ok")
  /\ HasCondition(ws[rec.name].status.conditions, ConditionTypeReady, "False", "ScaleError")

\* C11: Default never returns an error, whatever it is given; when the List
\* call fails or the admitted object is not a Pod, the object comes back as it
\* was.
C11_Stated ==
  adm.admitted =>
    /\ adm.err = Nil
    /\ (~adm.in.isPod \/ adm.calls = <<Call("List WorkloadSchedule", "error")>>) =>
         adm.out = adm.in

\* Default was called on a pod of a non-empty namespace that no schedule
\* object targets.
AdmittedIntoUngoverned ==
  /\ adm.admitted
  /\ adm.in.isPod
  /\ adm.in.namespace # ""
  /\ \A n \in Names : ws[n].exists => ws[n].spec.targetNamespace # adm.in.namespace

\* The env entries named ActiveEnvVar in the containers cs.
ActiveEntries(cs) ==
  UNION { {<<i, j>> : j \in {k \in 1..Len(cs[i].env) : cs[i].env[k].name = ActiveEnvVar}} :
          i \in 1..Len(cs) }

\* C13: when Default processes a pod whose namespace no schedule object
\* targets, the pod comes back with no active label added, no
\* WORKLOAD_SCHEDULE_ACTIVE entry added to a container or init container, and
\* no error: the pod is as it was.
C13_UnmatchedNamespace ==
  AdmittedIntoUngoverned =>
    /\ DOMAIN adm.out.labels = DOMAIN adm.in.labels
    /\ ActiveEntries(adm.out.containers) = ActiveEntries(adm.in.containers)
    /\ ActiveEntries(adm.out.initContainers) = ActiveEntries(adm.in.initContainers)
    /\ adm.out = adm.in
    /\ adm.err = Nil

\* A pod of namespace "other" was admitted while the only schedules listed
\* target "demo".
C13_Witness ==
  /\ AdmittedIntoUngoverned
  /\ adm.calls = <<Call("List WorkloadSchedule", "ok")>>
  /\ Len(adm.items) >= 1
  /\ ActiveLabel \notin DOMAIN adm.out.labels
  /\ ActiveEntries(adm.out.containers) = {}

PassOnMissing ==
  /\ rec.name # ""
  /\ ~rec.before.exists
  /\ ~Answered("Get WorkloadSchedule", "error")

\* C15: a Reconcile invocation for an identity whose schedule object does not
\* exist returns no error and requests no requeue; its only call is the Get,
\* and no object is written: schedule objects, namespaces and deployments are
\* as before.
C15_MissingObjectNoOp ==
  PassOnMissing =>
    /\ rec.err = Nil
    /\ rec.result = NoRequeue
    /\ rec.calls = <<Call("Get WorkloadSchedule", "NotFound")>>
    /\ ws[rec.name] = rec.before
    /\ namespaces = rec.namespacesBefore
    /\ deployments = rec.deploymentsBefore

\* Reconcile was invoked for an identity whose object is gone while its target
\* deployment is there.
C15_Witness ==
  /\ PassOnMissing
  /\ ~ws[rec.name].exists
  /\ \E k \in TargetKeys : deployments[k].exists
  /\ rec.err = Nil /\ rec.result = NoRequeue

\* C16: when ensuring the target namespace fails (the Get fails with an error
\* other than not-found, or the Create with an error other than
\* already-exists), the pass submits a status with Ready = False, reason
\* NamespaceError, which persists once that write is accepted; it returns the
\* namespace error with the fixed delay, and makes no time fetch and no call
\* on the target deployment.
C16_NamespaceError ==
  (PassOnRegistered /\ NamespaceStepFailed) =>
    /\ rec.calls[Len(rec.calls)].op = "Update Status"
    /\ HasCondition(rec.submitted.conditions, ConditionTypeReady, "False", "NamespaceError")
    /\ Answered("Update Status", "ok") =>
         HasCondition(ws[rec.name].status.conditions, ConditionTypeReady, "False", "NamespaceError")
    /\ rec.err \in {"failed to check namespace", "failed to create namespace"}
    /\ rec.result = Delayed
    /\ rec.fetched = NoFetch
    /\ ~Called("HTTP GET")
    /\ ~Called("Get Deployment") /\ ~Called("Update Deployment")
    /\ deployments = rec.deploymentsBefore

\* The target namespace was absent and its Create was rejected: Ready = False,
\* NamespaceError persisted.
C16_Witness ==
  /\ PassOnRegistered
  /\ Answered("Get Namespace", "NotFound")
  /\ Answered("Create Namespace", "error")
  /\ rec.before.spec.targetNamespace \notin namespaces
  /\ HasCondition(ws[rec.name].status.conditions, ConditionTypeReady, "False", "NamespaceError")
  /\ rec.result = Delayed

\* C17: when the scaling step fails (the target deployment is missing, its Get
\* fails, or the replica write is rejected), the pass submits a status with
\* Ready = False, reason ScaleError, which persists once that write is
\* accepted, and returns the scaling error with the fixed delay.
C17_ScaleError ==
  (PassOnRegistered /\ ScalingStepFailed) =>
    /\ rec.calls[Len(rec.calls)].op = "Update Status"
    /\ HasCondition(rec.submitted.conditions, ConditionTypeReady, "False", "ScaleError")
    /\ Answered("Update Status", "ok") =>
         HasCondition(ws[rec.name].status.conditions, ConditionTypeReady, "False", "ScaleError")
    /\ Answered("Get Deployment", "NotFound") => rec.err = "deployment not found"
    /\ Answered("Get Deployment", "error") => rec.err = "failed to get deployment"
    /\ Answered("Update Deployment", "error") => rec.err = "failed to scale deployment"
    /\ rec.err # Nil
    /\ rec.result = Delayed

\* The replica write was rejected: Ready = False, ScaleError persisted, and the
\* target kept its count.
C17_Witness ==
  /\ PassOnRegistered
  /\ Answered("Update Deployment", "error")
  /\ HasCondition(ws[rec.name].status.conditions, ConditionTypeReady, "False", "ScaleError")
  /\ deployments = rec.deploymentsBefore
  /\ rec.result = Delayed

\* The conditions of type t in conds.
ConditionsOfType(conds, t) == {i \in 1..Len(conds) : conds[i].type = t}

\* C18: after a pass in which every step succeeded the persisted status holds
\* that pass's values: currentLocalTime is the fetched time as text,
\* withinActiveWindow the window test of its hour, lastScaleAction the action
\* the scaling reported, lastSyncTime the time of the pass, currentReplicas the
\* desired count; it holds one Ready condition, True with reason Reconciled,
\* and one Synced condition, True with reason Synced, whatever conditions the
\* status held before.
C18_SuccessStatus ==
  EveryStepSucceeded =>
    LET sp     == rec.before.spec
        h      == rec.fetched.time.hour
        flag   == sp.startHour <= h /\ h < sp.endHour
        count  == IF flag THEN sp.replicasWhenActive ELSE 0
        was    == ReplicaCount(rec.deploymentsBefore[TargetKey(sp)])
        st     == ws[rec.name].status
    IN  /\ st.currentLocalTime = Str("RFC3339", <<h, rec.fetched.time.minute>>)
        /\ st.withinActiveWindow = flag
        /\ st.lastScaleAction =
             IF was = count
             THEN Str("no change needed (replicas=%d)", <<count>>)
             ELSE Str("scaled from %d to %d", <<was, count>>)
        /\ st.lastSyncTime = Ptr(passes)
        /\ st.currentReplicas = count
        /\ st = rec.submitted
        /\ Cardinality(ConditionsOfType(st.conditions, ConditionTypeReady)) = 1
        /\ Cardinality(ConditionsOfType(st.conditions, ConditionTypeSynced)) = 1
        /\ HasCondition(st.conditions, ConditionTypeReady, "True", "Reconciled")
        /\ HasCondition(st.conditions, ConditionTypeSynced, "True", "Synced")

\* A successful pass followed one whose time fetch had failed: Synced went
\* from False to True and the status fields were written.
C18_Witness ==
  /\ EveryStepSucceeded
  /\ HasCondition(rec.before.status.conditions, ConditionTypeSynced, "False", "TimeAPIError")
  /\ rec.before.status.lastSyncTime = NilPtr
  /\ HasCondition(ws[rec.name].status.conditions, ConditionTypeSynced, "True", "Synced")
  /\ ws[rec.name].status.lastSyncTime = Ptr(passes)
  /\ ws[rec.name].status.currentLocalTime # EmptyStr

\* C19: when the write that adds or removes the finalizer is rejected,
\* Reconcile returns that error with no requeue request of its own; the
\* rejected write is its last call, so the pass makes no namespace call, no
\* time fetch, no call on the target deployment and no status write; and the
\* schedule object (its finalizer list included), the namespaces and the
\* deployments are as before the pass, so nothing is kept that counts retries.
C19_FinalizerWriteFails ==
  (rec.name # "" /\ Answered("Update WorkloadSchedule", "error")) =>
    /\ rec.err = IF rec.before.deletionTimestamp
                 THEN "failed to remove finalizer" ELSE "failed to add finalizer"
    /\ rec.result = NoRequeue
    /\ rec.calls[Len(rec.calls)] = Call("Update WorkloadSchedule", "error")
    /\ ~Called("Get Namespace") /\ ~Called("Create Namespace")
    /\ ~Called("HTTP GET") /\ rec.fetched = NoFetch
    /\ ~Called("Get Deployment") /\ ~Called("Update Deployment")
    /\ ~Called("Update Status")
    /\ ws[rec.name] = rec.before
    /\ namespaces = rec.namespacesBefore
    /\ deployments = rec.deploymentsBefore

\* The removal of the finalizer of a deleted object was rejected: the object
\* still has it.
C19_Witness ==
  /\ rec.name # ""
  /\ Answered("Update WorkloadSchedule", "error")
  /\ rec.before.deletionTimestamp
  /\ ws[rec.name].exists
  /\ CountFinalizer(ws[rec.name].finalizers, FinalizerName) = 1
  /\ rec.err # Nil

\* C20: no Reconcile invocation changes the Spec of a schedule object: across
\* every invocation (finalizer added, finalizer removed, status written on
\* success or on failure) each schedule object that exists afterwards existed
\* before with the same Spec, so the Spec stays what the user wrote.
C20_SpecUntouched ==
  [][ rec'.name # "" =>
        \A n \in Names :
          ws'[n].exists => (ws[n].exists /\ ws'[n].spec = ws[n].spec) ]_vars

\* A pass wrote the status of an object and left its Spec as it was.
C20_Witness ==
  /\ rec.name # ""
  /\ Answered("Update Status", "ok")
  /\ ws[rec.name].status # rec.before.status
  /\ ws[rec.name].spec = rec.before.spec
  /\ ws[rec.name].spec.replicasWhenActive = 2

\* The schedule object n is live, and the deployment it targets exists.
LiveWithTarget(n) ==
  /\ ws[n].exists
  /\ ~ws[n].deletionTimestamp
  /\ deployments[TargetKey(ws[n].spec)].exists

\* The last pass was one for n that fetched the time, and now both conditions
\* of n are True and its target has the desired count of the fetched hour.
Healed(n) ==
  /\ rec.name = n
  /\ rec.fetched.err = Nil
  /\ ws[n].exists
  /\ HasCondition(ws[n].status.conditions, ConditionTypeReady, "True", "Reconciled")
  /\ HasCondition(ws[n].status.conditions, ConditionTypeSynced, "True", "Synced")
  /\ \A i \in 1..Len(ws[n].status.conditions) : ws[n].status.conditions[i].status = "True"
  /\ LET sp == ws[n].spec
         h  == rec.fetched.time.hour
     IN  ReplicaCount(deployments[TargetKey(sp)]) =
           IF sp.startHour <= h /\ h < sp.endHour THEN sp.replicasWhenActive ELSE 0

\* C12: from any state the system can be in, failed passes included, once the
\* environment is quiet (the time source, the namespace API, the deployment
\* API and the status writes answer without error, and nobody edits, deletes
\* or rescales anything), every live schedule object whose target deployment
\* exists reaches, under fair re-triggering of Reconcile, a state where Ready
\* and Synced are True and the target's replica count is the desired count
\* for the fetched hour.
C12_SelfHealing ==
  \A n \in Names : (Quiet /\ LiveWithTarget(n)) ~> Healed(n)

\* In the quiet environment a pass rescaled the target of a schedule and left
\* it healed.
C12_Witness ==
  /\ Quiet
  /\ \E n \in Names :
       /\ Healed(n)
       /\ Answered("Update Deployment", "ok")
       /\ rec.deploymentsBefore # deployments

\* The condition types of conds.
ConditionTypes(conds) == {conds[i].type : i \in 1..Len(conds)}

\* C21: every persisted status holds at most one condition per condition type
\* and no condition of a type other than Ready and Synced; the same goes for
\* the status a pass submits.  When a status write is accepted, the conditions
\* that were there keep their places (a condition of a type already present is
\* replaced where it stood) and the list grows only by the types that were not
\* there.
C21_OneConditionPerType ==
  /\ \A n \in Names :
       /\ ConditionTypes(ws[n].status.conditions) \subseteq {"Ready", "Synced"}
       /\ \A t \in {"Ready", "Synced"} :
            Cardinality(ConditionsOfType(ws[n].status.conditions, t)) <= 1
  /\ ConditionTypes(rec.submitted.conditions) \subseteq {"Ready", "Synced"}
  /\ \A t \in {"Ready", "Synced"} :
       Cardinality(ConditionsOfType(rec.submitted.conditions, t)) <= 1
  /\ (rec.name # "" /\ Answered("Update Status", "ok")) =>
       LET was == rec.before.status.conditions
           now == ws[rec.name].status.conditions
       IN  /\ Len(now) = Cardinality(ConditionTypes(was) \cup ConditionTypes(now))
           /\ Len(now) >= Len(was)
           /\ \A i \in 1..Len(was) : now[i].type = was[i].type

\* A status holding Ready = True and Synced = True had its Ready condition
\* set to False by a pass whose scaling failed: still two conditions, Ready
\* first.
C21_Witness ==
  /\ rec.name # ""
  /\ Answered("Update Status", "ok")
  /\ Len(rec.before.status.conditions) = 2
  /\ rec.before.status.conditions[1] =
       Condition("Ready", "True", "Reconciled", "Successfully reconciled")
  /\ Len(ws[rec.name].status.conditions) = 2
  /\ ws[rec.name].status.conditions[1].type = "Ready"
  /\ ws[rec.name].status.conditions[1].status = "False"
  /\ ws[rec.name].status.conditions[2] = rec.before.status.conditions[2]

\* Default was called on a pod, found a schedule object for it and mutated
\* the pod.
Mutated == adm.admitted /\ adm.matched # ""

\* The containers and init containers of a pod, as one list.
AllContainers(p) == p.containers \o p.initContainers

\* C22: after Default mutated a pod for a matched schedule, the active label
\* is "true" or "false", and every container and every init container has an
\* env entry named WORKLOAD_SCHEDULE_ACTIVE with the label's value: in a
\* container that had an entry of that name the first such entry holds the
\* value and the env list keeps its length and its names; a container that
\* had none keeps its entries and gains one entry, appended at the end.
C22_EnvUpsert ==
  Mutated =>
    LET v   == adm.out.labels[ActiveLabel]
        was == AllContainers(adm.in)
        now == AllContainers(adm.out)
    IN  /\ v \in {"true", "false"}
        /\ Len(adm.out.containers) = Len(adm.in.containers)
        /\ Len(adm.out.initContainers) = Len(adm.in.initContainers)
        /\ \A i \in 1..Len(was) :
             LET a == was[i].env
                 b == now[i].env
                 had == {j \in 1..Len(a) : a[j].name = ActiveEnvVar}
             IN  /\ \E j \in 1..Len(b) : b[j] = EnvVar(ActiveEnvVar, v)
                 /\ had # {} =>
                      /\ Len(b) = Len(a)
                      /\ \A j \in 1..Len(a) : b[j].name = a[j].name
                      /\ \E j \in had : b[j].value = v /\ \A k \in had : j <= k
                 /\ had = {} =>
                      /\ Len(b) = Len(a) + 1
                      /\ b[Len(b)] = EnvVar(ActiveEnvVar, v)
                      /\ \A j \in 1..Len(a) : b[j] = a[j]

\* A pod with a container holding a stale entry and a container holding none
\* was mutated: the stale entry now reads "false" where it stood and the
\* other container got the entry appended.
C22_Witness ==
  /\ Mutated
  /\ adm.out.labels[ActiveLabel] = "false"
  /\ Len(adm.in.containers) = 2
  /\ adm.in.containers[1].env[2] = EnvVar(ActiveEnvVar, "stale")
  /\ adm.out.containers[1].env[2] = EnvVar(ActiveEnvVar, "false")
  /\ Len(adm.out.containers[1].env) = 3
  /\ adm.in.containers[2].env = <<EnvVar("A", "1")>>
  /\ adm.out.containers[2].env = <<EnvVar("A", "1"), EnvVar(ActiveEnvVar, "false")>>
  /\ adm.out.initContainers[1].env[1] = EnvVar(ActiveEnvVar, "false")

\* C23: in every persisted status, status.currentReplicas is the Spec's
\* replicasWhenActive when status.withinActiveWindow is true and 0 when it is
\* false: in the empty status of a new object, after successful passes and
\* after passes that failed at any step.  (No step of the model edits a Spec.)
C23_StatusReplicasMatchFlag ==
  \A n \in Names :
    ws[n].exists =>
      /\ ws[n].status.withinActiveWindow =>
           ws[n].status.currentReplicas = ws[n].spec.replicasWhenActive
      /\ ~ws[n].status.withinActiveWindow => ws[n].status.currentReplicas = 0

\* A pass whose scaling step failed wrote its condition into a status that
\* holds an active window and 2 replicas from an earlier successful pass,
\* while the target no longer has 2 replicas.
C23_Witness ==
  /\ PassOnRegistered
  /\ ScalingStepFailed
  /\ Answered("Update Status", "ok")
  /\ ws[rec.name].status.withinActiveWindow
  /\ ws[rec.name].status.currentReplicas = 2
  /\ ws[rec.name].spec.replicasWhenActive = 2
  /\ ReplicaCount(deployments[TargetKey(ws[rec.name].spec)]) # 2

\* The schedule object n is newly created: live, no finalizer, empty status.
NewlyCreated(n) ==
  /\ ws[n].exists
  /\ ~ws[n].deletionTimestamp
  /\ ws[n].finalizers = <<>>
  /\ ws[n].status = ZeroStatus

\* The schedule object n is live with the finalizer and an empty status: a
\* new object after its first pass.
RegisteredUnsynced(n) ==
  /\ ws[n].exists
  /\ ~ws[n].deletionTimestamp
  /\ ws[n].finalizers = <<FinalizerName>>
  /\ ws[n].status = ZeroStatus

\* The deployment the schedule object n targets exists.
TargetExists(n) == deployments[TargetKey(ws[n].spec)].exists

\* C24: in the quiet environment (no call fails, nobody else writes), under
\* fair re-triggering of Reconcile, a newly created schedule object whose
\* target deployment exists eventually has a non-null status.lastSyncTime.
\* The pass that finds the new object only adds the finalizer (two calls, the
\* status still empty, the deployments untouched) and asks for an immediate
\* rerun; the pass that finds it registered with the empty status does the
\* full sync and writes the status with lastSyncTime set.
C24_FirstSync ==
  /\ \A n \in Names :
       (Quiet /\ NewlyCreated(n) /\ TargetExists(n)) ~>
         (ws[n].exists /\ ~ws[n].status.lastSyncTime.nil)
  /\ [][ \A n \in Names :
           (Quiet /\ NewlyCreated(n) /\ rec'.name = n) =>
             /\ ws'[n] = [ws[n] EXCEPT !.finalizers = <<FinalizerName>>]
             /\ rec'.result = Result(TRUE, 0)
             /\ rec'.err = Nil
             /\ rec'.calls = << Call("Get WorkloadSchedule", "ok"),
                                Call("Update WorkloadSchedule", "ok") >>
             /\ deployments' = deployments ]_vars
  /\ [][ \A n \in Names :
           (Quiet /\ RegisteredUnsynced(n) /\ TargetExists(n) /\ rec'.name = n) =>
             /\ ~ws'[n].status.lastSyncTime.nil
             /\ ws'[n].status.conditions # <<>>
             /\ rec'.calls[Len(rec'.calls)] = Call("Update Status", "ok")
             /\ rec'.result = Result(FALSE, RequeueInterval) ]_vars

\* In the quiet environment the first pass on a new object has just added the
\* finalizer and asked for the rerun; the status is still empty and the
\* target exists.
C24_Witness ==
  /\ Quiet
  /\ \E n \in Names :
       /\ rec.name = n
       /\ rec.result = Result(TRUE, 0)
       /\ RegisteredUnsynced(n)
       /\ TargetExists(n)

\* The entries of an env list that are not named ActiveEnvVar, in order.
OtherEntries(env) == SelectSeq(env, LAMBDA x : x.name # ActiveEnvVar)

\* What the last Default invocation left of the pod it was given: the type,
\* the namespace, every label but the active label, the number, names and
\* order of the containers and init containers, and in each of them every
\* env entry not named ActiveEnvVar, in its place.
PodFrame ==
  LET was == AllContainers(adm.in)
      now == AllContainers(adm.out)
  IN  /\ adm.out.isPod = adm.in.isPod
      /\ adm.out.namespace = adm.in.namespace
      /\ DOMAIN adm.in.labels \subseteq DOMAIN adm.out.labels
      /\ DOMAIN adm.out.labels \subseteq DOMAIN adm.in.labels \cup {ActiveLabel}
      /\ \A k \in DOMAIN adm.in.labels \ {ActiveLabel} : adm.out.labels[k] = adm.in.labels[k]
      /\ Len(adm.out.containers) = Len(adm.in.containers)
      /\ Len(adm.out.initContainers) = Len(adm.in.initContainers)
      /\ \A i \in 1..Len(was) :
           /\ now[i].name = was[i].name
           /\ OtherEntries(now[i].env) = OtherEntries(was[i].env)
           /\ Len(now[i].env) \in {Len(was[i].env), Len(was[i].env) + 1}
           /\ \A j \in 1..Len(was[i].env) : now[i].env[j].name = was[i].env[j].name

\* C25: a Default invocation changes nothing but the pod it is given, and of
\* the pod only the active label and the env entries named
\* WORKLOAD_SCHEDULE_ACTIVE: across the invocation the schedule objects, the
\* deployments and the namespaces are the same, its only call is the List,
\* and the pod keeps its other labels, its containers and init containers,
\* and their other env entries in their order.
C25_AdmissionFrame ==
  [][ adm'.admitted =>
        /\ ws' = ws
        /\ deployments' = deployments
        /\ namespaces' = namespaces
        /\ \A i \in 1..Len(adm'.calls) : adm'.calls[i].op = "List WorkloadSchedule"
        /\ PodFrame' ]_vars

\* A pod with the label app = web and a container holding A, a stale
\* WORKLOAD_SCHEDULE_ACTIVE and B was mutated: the label and the entries A
\* and B are as they were, the stale values are replaced.
C25_Witness ==
  /\ Mutated
  /\ adm.in.labels["app"] = "web" /\ adm.out.labels["app"] = "web"
  /\ adm.in.labels[ActiveLabel] = "stale" /\ adm.out.labels[ActiveLabel] # "stale"
  /\ adm.out.containers[1].env[1] = EnvVar("A", "1")
  /\ adm.out.containers[1].env[2].value # "stale"
  /\ adm.out.containers[1].env[3] = EnvVar("B", "2")
  /\ adm.out # adm.in

\* How many calls of the last pass were the operation op.
CallCount(op) == Cardinality({i \in 1..Len(rec.calls) : rec.calls[i].op = op})

\* C26: a pass whose time fetch fails (the call fails, the API answers a
\* status other than 200, the body is no JSON, or the datetime does not
\* parse) makes one HTTP request, and no Get and no Update of the target
\* deployment: every deployment is as it was before the pass.
C26_TimeFailureLeavesTarget ==
  (PassOnRegistered /\ TimeFetchFailed) =>
    /\ rec.fetched.err \in { "failed to call World Time API",
                             "World Time API returned status",
                             "failed to decode World Time API response",
                             "failed to parse datetime" }
    /\ CallCount("HTTP GET") = 1
    /\ CallCount("Get Deployment") = 0
    /\ CallCount("Update Deployment") = 0
    /\ deployments = rec.deploymentsBefore
    /\ rec.err = rec.fetched.err

\* The datetime of the answer did not parse while the target had 1 replica,
\* which is the desired count of no hour for a schedule with
\* replicasWhenActive = 2: the target still has 1 replica.
C26_Witness ==
  /\ PassOnRegistered
  /\ rec.fetched.err = "failed to parse datetime"
  /\ rec.before.spec.replicasWhenActive = 2
  /\ deployments[TargetKey(rec.before.spec)] = Deployment(Ptr(1))
  /\ Answered("Update Status", "ok")

\* The places in the list answered to the last Default invocation that hold a
\* schedule object targeting the pod's namespace.
Matches ==
  {i \in 1..Len(adm.items) : ws[adm.items[i]].spec.targetNamespace = adm.in.namespace}

\* The label value that stands for a persisted flag.
FlagText(n) == IF ws[n].status.withinActiveWindow THEN "true" ELSE "false"

\* C27: when the list answered to Default holds several schedule objects
\* targeting the pod's namespace, Default goes by the one listed first and by
\* no other: the label is the text of that object's persisted flag, so it is
\* not the text of the flag of a later match that holds the other flag, and
\* listing the same objects in another order would give the other label.
C27_FirstListedWins ==
  (AdmittedIntoGoverned /\ Cardinality(Matches) >= 2) =>
    LET first == CHOOSE i \in Matches : \A j \in Matches : i <= j
    IN  /\ adm.matched = adm.items[first]
        /\ adm.out.labels[ActiveLabel] = FlagText(adm.items[first])
        /\ \A i \in Matches :
             FlagText(adm.items[i]) # FlagText(adm.items[first]) =>
               adm.out.labels[ActiveLabel] # FlagText(adm.items[i])

\* Two schedules target namespace demo; ws1 persisted an active window, ws2
\* did not.  The list came as ws2, ws1, and the pod got the label "false".
C27_Witness ==
  /\ AdmittedIntoGoverned
  /\ adm.items = <<"ws2", "ws1">>
  /\ Matches = {1, 2}
  /\ ws["ws1"].status.withinActiveWindow
  /\ ~ws["ws2"].status.withinActiveWindow
  /\ adm.matched = "ws2"
  /\ adm.out.labels[ActiveLabel] = "false"

\* The same two schedules, listed as ws1, ws2: the pod got the label "true".
C27_WitnessOtherOrder ==
  /\ AdmittedIntoGoverned
  /\ adm.items = <<"ws1", "ws2">>
  /\ Matches = {1, 2}
  /\ ws["ws1"].status.withinActiveWindow
  /\ ~ws["ws2"].status.withinActiveWindow
  /\ adm.matched = "ws1"
  /\ adm.out.labels[ActiveLabel] = "true"

\* C28: a Reconcile invocation issues at most one write of a deployment.  A
\* write is issued only by a pass on a live registered object that fetched the
\* time, only to the target of the schedule, and only when the target's count
\* differs from the desired count of the pass (replicasWhenActive when the
\* fetched hour is in the window, else 0); once accepted, the target holds
\* exactly that count and every other deployment is as before.  A pass without
\* an accepted write leaves every deployment as it was.
C28_SingleExactWrite ==
  rec.name # "" =>
    /\ CallCount("Update Deployment") <= 1
    /\ ~Answered("Update Deployment", "ok") => deployments = rec.deploymentsBefore
    /\ Called("Update Deployment") =>
         LET sp      == rec.before.spec
             h       == rec.fetched.time.hour
             desired == IF sp.startHour <= h /\ h < sp.endHour
                        THEN sp.replicasWhenActive ELSE 0
             key     == TargetKey(sp)
         IN  /\ PassOnRegistered
             /\ rec.fetched.err = Nil
             /\ desired \in {sp.replicasWhenActive, 0}
             /\ rec.deploymentsBefore[key].exists
             /\ ReplicaCount(rec.deploymentsBefore[key]) # desired
             /\ Answered("Update Deployment", "ok") =>
                  /\ deployments[key] = Deployment(Ptr(desired))
                  /\ \A k \in TargetKeys \ {key} : deployments[k] = rec.deploymentsBefore[k]

\* At hour 17 of the window [9,17) a pass wrote the count 0 to a target that
\* had 1 replica, in one write.
C28_Witness ==
  /\ PassOnRegistered
  /\ rec.fetched.time.hour = 17
  /\ rec.before.spec.endHour = 17
  /\ CallCount("Update Deployment") = 1
  /\ Answered("Update Deployment", "ok")
  /\ rec.deploymentsBefore[TargetKey(rec.before.spec)] = Deployment(Ptr(1))
  /\ deployments[TargetKey(rec.before.spec)] = Deployment(Ptr(0))

\* C29: for a schedule whose startHour is not below its endHour,
\* isWithinActiveWindow is false at every hour 0..23 (as it is for the window
\* from 22 to 6), with no wraparound across midnight; so a pass on such a
\* schedule in which every step succeeded persists withinActiveWindow = false
\* and currentReplicas = 0 and leaves the target with 0 replicas, whatever
\* hour was fetched.
C29_NoWraparound ==
  (EveryStepSucceeded /\ rec.before.spec.startHour >= rec.before.spec.endHour) =>
    LET sp == rec.before.spec
    IN  /\ \A h \in 0..23, m \in {0, 59} :
             /\ ~isWithinActiveWindow(Time(h, m), sp.startHour, sp.endHour)
             /\ ~isWithinActiveWindow(Time(h, m), 22, 6)
        /\ ~ws[rec.name].status.withinActiveWindow
        /\ ws[rec.name].status.currentReplicas = 0
        /\ ReplicaCount(deployments[TargetKey(sp)]) = 0

\* The schedule with the window from 17 to 9 was synced at 17:00, an hour a
\* wrapping window would hold: its target went from 1 replica to 0.
C29_Witness ==
  /\ EveryStepSucceeded
  /\ rec.before.spec.startHour = 17 /\ rec.before.spec.endHour = 9
  /\ rec.fetched.time.hour = 17
  /\ rec.deploymentsBefore[TargetKey(rec.before.spec)] = Deployment(Ptr(1))
  /\ deployments[TargetKey(rec.before.spec)] = Deployment(Ptr(0))
  /\ ~ws[rec.name].status.withinActiveWindow

\* How far a schedule object is in its lifecycle: Unregistered (live, no
\* finalizer), Registered (live, finalizer), Deleting (deletion timestamp
\* set), Gone.
Stage(o) ==
  IF ~o.exists THEN 3
  ELSE IF o.deletionTimestamp THEN 2
  ELSE IF CountFinalizer(o.finalizers, FinalizerName) >= 1 THEN 1
  ELSE 0

\* C30: across every Reconcile invocation, an object that loses the finalizer
\* is the object of the invocation and had its deletion timestamp set, an
\* object that gains the finalizer is the object of the invocation and had
\* none set, and a live object that has the finalizer stays live with it.
\* Across every step, a Reconcile invocation or a user's delete, an existing
\* object never moves to an earlier stage of Unregistered, Registered,
\* Deleting, Gone.
C30_LifecycleForward ==
  [][ /\ \A n \in Names : ws[n].exists => Stage(ws'[n]) >= Stage(ws[n])
      /\ rec'.name # "" =>
           \A n \in Names :
             LET had == CountFinalizer(ws[n].finalizers, FinalizerName) >= 1
                 has == CountFinalizer(ws'[n].finalizers, FinalizerName) >= 1
             IN  /\ (had /\ ~has) => (n = rec'.name /\ ws[n].deletionTimestamp)
                 /\ (ws[n].exists /\ ~had /\ has) =>
                      (n = rec'.name /\ ~ws[n].deletionTimestamp)
                 /\ ~ws[n].exists => ~ws'[n].exists
                 /\ (ws[n].exists /\ ~ws[n].deletionTimestamp /\ had) =>
                      (ws'[n].exists /\ ~ws'[n].deletionTimestamp /\ has) ]_vars

\* An object that had been synced while registered, and then deleted by its
\* user, had its finalizer removed by a pass and is gone.
C30_Witness ==
  /\ PassOnDeleting
  /\ ~rec.before.status.lastSyncTime.nil
  /\ Answered("Update WorkloadSchedule", "ok")
  /\ Stage(rec.before) = 2
  /\ Stage(ws[rec.name]) = 3

\* The schedule object n has a deletion timestamp and the finalizer.
Deleting(n) ==
  /\ ws[n].exists
  /\ ws[n].deletionTimestamp
  /\ CountFinalizer(ws[n].finalizers, FinalizerName) >= 1

\* C31: once the writes of the object are accepted (the quiet environment),
\* under fair re-triggering of Reconcile every schedule object with a deletion
\* timestamp and the finalizer is eventually gone.  Every pass that reads such
\* an object runs cleanupResources, which succeeds, and goes on to the write
\* that removes the finalizer, making no namespace call, no time fetch and no
\* call on a deployment, whether or not the target deployment or its namespace
\* exists; once that write is accepted the object is gone.
C31_DeletionCompletes ==
  /\ \A n \in Names : (Quiet /\ Deleting(n)) ~> ~ws[n].exists
  /\ [][ \A n \in Names :
           (Deleting(n) /\ rec'.name = n /\ rec'.calls[1] = Call("Get WorkloadSchedule", "ok")) =>
             /\ Len(rec'.calls) = 3
             /\ rec'.calls[2] = Call("cleanupResources", "ok")
             /\ rec'.calls[3].op = "Update WorkloadSchedule"
             /\ rec'.fetched = NoFetch
             /\ deployments' = deployments
             /\ namespaces' = namespaces
             /\ rec'.calls[3].res = "ok" => ~ws'[n].exists ]_vars

\* In the quiet environment a pass removed the finalizer of a deleted object
\* while no deployment exists: the object is gone.
C31_Witness ==
  /\ Quiet
  /\ rec.name # ""
  /\ rec.calls = << Call("Get WorkloadSchedule", "ok"), Call("cleanupResources", "ok"),
                    Call("Update WorkloadSchedule", "ok") >>
  /\ ~ws[rec.name].exists
  /\ \A k \in TargetKeys : ~deployments[k].exists

\* The namespace step of the last pass ran and returned without error.
NamespaceStepSucceeded ==
  /\ PassOnRegistered
  /\ Called("Get Namespace")
  /\ ~NamespaceStepFailed

\* C32: whenever the namespace step of a pass returns without error, the
\* target namespace exists and the pass goes on to the time fetch.  This
\* includes the pass whose Get finds no namespace and whose Create is answered
\* already-exists because another actor created it in between: that pass
\* sets no namespace error condition (one it submits was there before the
\* pass) and fetches the time.
C32_NamespaceEnsured ==
  /\ NamespaceStepSucceeded =>
       /\ rec.before.spec.targetNamespace \in namespaces
       /\ Called("HTTP GET")
       /\ rec.fetched # NoFetch
       /\ rec.err \notin {"failed to check namespace", "failed to create namespace"}
       /\ HasCondition(rec.submitted.conditions, ConditionTypeReady, "False", "NamespaceError")
            => HasCondition(rec.before.status.conditions, ConditionTypeReady, "False", "NamespaceError")
  /\ (PassOnRegistered /\ Answered("Create Namespace", "AlreadyExists")) =>
       /\ NamespaceStepSucceeded
       /\ Answered("Get Namespace", "NotFound")
       /\ rec.before.spec.targetNamespace \notin rec.namespacesBefore

\* Namespace "other" was absent at the Get and created by another actor
\* before the Create: the pass went on to the time fetch and the scaling step.
C32_Witness ==
  /\ PassOnRegistered
  /\ Answered("Get Namespace", "NotFound")
  /\ Answered("Create Namespace", "AlreadyExists")
  /\ "other" \notin rec.namespacesBefore
  /\ "other" \in namespaces
  /\ rec.before.spec.targetNamespace = "other"
  /\ rec.fetched.err = Nil
  /\ Called("Get Deployment")

\* The places of the calls of the operation op in the last pass.
CallsOf(op) == {i \in 1..Len(rec.calls) : rec.calls[i].op = op}

\* C33 as stated: whenever a pass persists a status, the target deployment's
\* replica count equals the status.currentReplicas written.
C33_Stated ==
  (rec.name # "" /\ Answered("Update Status", "ok")) =>
    /\ deployments[TargetKey(rec.before.spec)].exists
    /\ ReplicaCount(deployments[TargetKey(rec.before.spec)]) =
         ws[rec.name].status.currentReplicas

\* C33, amended: in every pass a write of the target's replica count comes
\* before the status write.  When the pass reached its status write with the
\* namespace, time and scaling steps succeeded, the target exists and its
\* replica count is the status.currentReplicas submitted, which is what
\* persists once the write is accepted.  (A pass that failed at one of those
\* steps submits the currentReplicas it read, whatever the target's count.)
C33_WriteBeforeStatus ==
  rec.name # "" =>
    /\ \A i \in CallsOf("Update Deployment"), j \in CallsOf("Update Status") : i < j
    /\ (PassOnRegistered /\ ~StepFailed /\ Called("Update Status")) =>
         LET target == deployments[TargetKey(rec.before.spec)]
         IN  /\ target.exists
             /\ ReplicaCount(target) = rec.submitted.currentReplicas
             /\ Answered("Update Status", "ok") =>
                  ReplicaCount(target) = ws[rec.name].status.currentReplicas
    /\ (StepFailed /\ Called("Update Status")) =>
         rec.submitted.currentReplicas = rec.before.status.currentReplicas

\* A pass wrote the count 0 to a target that had 1 replica as its fifth call
\* and the status, with currentReplicas = 0, as its sixth.
C33_Witness ==
  /\ PassOnRegistered
  /\ rec.calls = << Call("Get WorkloadSchedule", "ok"), Call("Get Namespace", "ok"),
                    Call("HTTP GET", "ok"), Call("Get Deployment", "ok"),
                    Call("Update Deployment", "ok"), Call("Update Status", "ok") >>
  /\ rec.deploymentsBefore[TargetKey(rec.before.spec)] = Deployment(Ptr(1))
  /\ deployments[TargetKey(rec.before.spec)] = Deployment(Ptr(0))
  /\ ws[rec.name].status.currentReplicas = 0
  /\ rec.before.status.lastSyncTime.nil

\* The fields of a status other than its conditions.
StatusFields(st) ==
  << st.currentLocalTime, st.withinActiveWindow, st.lastScaleAction,
     st.lastSyncTime, st.currentReplicas >>

\* The conditions of conds whose type is not t.
ConditionsBut(conds, t) == {conds[i] : i \in {j \in 1..Len(conds) : conds[j].type # t}}

\* The condition type and reason a failed step reports.
FailureType == IF TimeFetchFailed THEN "Synced" ELSE "Ready"
FailureReason ==
  IF NamespaceStepFailed THEN "NamespaceError"
  ELSE IF TimeFetchFailed THEN "TimeAPIError"
  ELSE "ScaleError"

\* C34: a pass that fails at the namespace, time or scaling step submits a
\* status that differs from the one it read in one condition only: Ready
\* (namespace, scaling) or Synced (time) is False with the step's reason, the
\* condition of the other type and currentLocalTime, withinActiveWindow,
\* lastScaleAction, lastSyncTime and currentReplicas are as read.  That status
\* persists when the write is accepted, and the status as read stays when it
\* is rejected.  So a pass whose time fetch succeeded and whose scaling failed
\* neither sets Synced nor the active flag; and across any pass lastSyncTime
\* changes only when every step succeeded.
C34_FailureTouchesOneCondition ==
  /\ StepFailed =>
       LET was == rec.before.status
           sub == rec.submitted
           now == ws[rec.name].status
       IN  /\ StatusFields(sub) = StatusFields(was)
           /\ ConditionsBut(sub.conditions, FailureType) =
                ConditionsBut(was.conditions, FailureType)
           /\ Cardinality(ConditionsOfType(sub.conditions, FailureType)) = 1
           /\ HasCondition(sub.conditions, FailureType, "False", FailureReason)
           /\ now = IF Answered("Update Status", "ok") THEN sub ELSE was
  /\ (rec.name # "" /\ ws[rec.name].exists
        /\ ws[rec.name].status.lastSyncTime # rec.before.status.lastSyncTime) =>
       EveryStepSucceeded

\* A status held Synced = False from a failed time fetch.  The next pass
\* fetched 9:30, inside the window [9,17), and found no target: Ready is
\* False with ScaleError, Synced is still False with TimeAPIError, and the
\* active flag is still false.
C34_Witness ==
  /\ PassOnRegistered
  /\ Answered("Get Deployment", "NotFound")
  /\ Answered("Update Status", "ok")
  /\ rec.fetched.err = Nil /\ rec.fetched.time.hour = 9
  /\ rec.before.spec.startHour = 9 /\ rec.before.spec.endHour = 17
  /\ HasCondition(rec.before.status.conditions, ConditionTypeSynced, "False", "TimeAPIError")
  /\ HasCondition(ws[rec.name].status.conditions, ConditionTypeSynced, "False", "TimeAPIError")
  /\ HasCondition(ws[rec.name].status.conditions, ConditionTypeReady, "False", "ScaleError")
  /\ ~ws[rec.name].status.withinActiveWindow
  /\ ws[rec.name].status.lastSyncTime.nil

\* C35: a pod admitted into a namespace whose governing schedule has never
\* been synced (its status.lastSyncTime is unset: the empty status of a new
\* object, or a status holding only conditions of failed passes) gets the
\* active label "false" and, in every container and init container, a
\* WORKLOAD_SCHEDULE_ACTIVE entry with the value "false"; Default fetches no
\* time, so this does not depend on the hour.
C35_UnsyncedIsInactive ==
  (AdmittedIntoGoverned /\ ws[GoverningSchedule].status.lastSyncTime.nil) =>
    /\ adm.out.labels[ActiveLabel] = "false"
    /\ \A i \in 1..Len(AllContainers(adm.out)) :
         \E j \in 1..Len(AllContainers(adm.out)[i].env) :
           AllContainers(adm.out)[i].env[j] = EnvVar(ActiveEnvVar, "false")
    /\ \A i \in 1..Len(adm.calls) : adm.calls[i].op = "List WorkloadSchedule"

\* A pod was admitted into namespace demo while the schedule with the window
\* [9,17) still had its empty status: label and env value are "false".
C35_Witness ==
  /\ AdmittedIntoGoverned
  /\ ws[GoverningSchedule].status = ZeroStatus
  /\ ws[GoverningSchedule].spec.startHour = 9
  /\ ws[GoverningSchedule].spec.endHour = 17
  /\ adm.out.labels[ActiveLabel] = "false"
  /\ adm.out.containers[2].env[2] = EnvVar(ActiveEnvVar, "false")

\* The last pass succeeded at every step but its final status write, which
\* was rejected.
FinalStatusWriteFailed ==
  /\ PassOnRegistered
  /\ ~StepFailed
  /\ Answered("Update Status", "error")

\* C36: when the final status write of a pass is rejected after every other
\* step succeeded, the target keeps the count the pass gave it (the desired
\* count of the fetched hour; a replica write made in the pass is not undone),
\* the schedule object is as it was before the pass, so its persisted status
\* holds the previous values, withinActiveWindow included, whatever the pass
\* had computed; and Reconcile returns the error with no requeue delay.
C36_StatusWriteFails ==
  FinalStatusWriteFailed =>
    LET sp      == rec.before.spec
        h       == rec.fetched.time.hour
        desired == IF sp.startHour <= h /\ h < sp.endHour THEN sp.replicasWhenActive ELSE 0
    IN  /\ ReplicaCount(deployments[TargetKey(sp)]) = desired
        /\ Answered("Update Deployment", "ok") =>
             /\ deployments # rec.deploymentsBefore
             /\ CallCount("Update Deployment") = 1
        /\ ws[rec.name] = rec.before
        /\ rec.submitted.withinActiveWindow = (sp.startHour <= h /\ h < sp.endHour)
        /\ rec.err # Nil
        /\ rec.result = Result(FALSE, 0)
        /\ rec.calls[Len(rec.calls)] = Call("Update Status", "error")

\* At 9:30 a pass scaled the target from 1 to 2 replicas and its status write
\* was rejected: the target has 2 replicas, the persisted status still says
\* inactive with 0 replicas, and no delay was requested.
C36_Witness ==
  /\ FinalStatusWriteFailed
  /\ Answered("Update Deployment", "ok")
  /\ rec.deploymentsBefore[TargetKey(rec.before.spec)] = Deployment(Ptr(1))
  /\ deployments[TargetKey(rec.before.spec)] = Deployment(Ptr(2))
  /\ rec.submitted.withinActiveWindow
  /\ ~ws[rec.name].status.withinActiveWindow
  /\ ws[rec.name].status.currentReplicas = 0
  /\ rec.result = Result(FALSE, 0)

\* Default applied once more to the pod the last admission returned: the List
\* call answers as it did (the same objects in the same order, with the status
\* they hold now, which no actor changed since; or the same failure).
AppliedAgain ==
  LET listed == adm.calls # <<>> /\ adm.calls[1] = Call("List WorkloadSchedule", "ok")
      items  == [i \in 1..Len(adm.items) |-> ws[adm.items[i]]]
  IN  Default(adm.out, items, ~listed)

\* The number of entries named WORKLOAD_SCHEDULE_ACTIVE in an env list.
ActiveCount(env) == Cardinality({j \in 1..Len(env) : env[j].name = ActiveEnvVar})

\* C37: Default is idempotent.  Applied again to the pod it returned, against
\* the same schedule list and persisted status, it returns that same pod: the
\* label keeps its value, every container and init container keeps its env
\* list entry for entry, and so gains no second WORKLOAD_SCHEDULE_ACTIVE
\* entry; it matches the same schedule and returns the same error or none.
C37_DefaultIdempotent ==
  adm.admitted =>
    /\ AppliedAgain.obj = adm.out
    /\ AppliedAgain.err = adm.err
    /\ AppliedAgain.calls = adm.calls
    /\ Mutated =>
         /\ adm.items[AppliedAgain.matched] = adm.matched
         /\ AppliedAgain.obj.labels[ActiveLabel] = adm.out.labels[ActiveLabel]
         /\ \A i \in 1..Len(AllContainers(adm.out)) :
              /\ AllContainers(AppliedAgain.obj)[i].env = AllContainers(adm.out)[i].env
              /\ ActiveCount(AllContainers(AppliedAgain.obj)[i].env)
                   = ActiveCount(AllContainers(adm.out)[i].env)

\* Default changed a pod of a governed namespace: it replaced the stale label,
\* appended an entry to the container that had none, and a second application
\* returns the pod with that one entry still.
C37_Witness ==
  /\ AdmittedIntoGoverned
  /\ adm.out # adm.in
  /\ Len(adm.in.containers) = 2
  /\ ActiveLabel \in DOMAIN adm.in.labels
  /\ adm.in.labels[ActiveLabel] = "stale"
  /\ adm.out.labels[ActiveLabel] = "true"
  /\ Len(adm.in.containers[2].env) = 1
  /\ ActiveCount(adm.out.containers[2].env) = 1
  /\ ActiveCount(AppliedAgain.obj.containers[2].env) = 1
  /\ AppliedAgain.obj = adm.out

\* The last pass reached the scaling step and found no target deployment.
TargetNotFound ==
  /\ PassOnRegistered
  /\ Answered("Get Deployment", "NotFound")

\* What scaleDeployment returned to the last pass, whose Get was answered:
\* the call on the deployments the pass found, for the hour it fetched.
ScaleReturn ==
  LET sp == rec.before.spec
      h  == rec.fetched.time.hour
  IN  scaleDeployment(rec.deploymentsBefore, sp.targetNamespace, sp.targetDeployment,
                      IF sp.startHour <= h /\ h < sp.endHour THEN sp.replicasWhenActive ELSE 0,
                      [getErr |-> FALSE, updateErr |-> FALSE])

\* C38: when the target deployment does not exist, scaleDeployment returns the
\* action "deployment not found", the count 0 and an error, after a Get and no
\* other call.  The pass writes no deployment, so the target still does not
\* exist; the status it submits, and the persisted one, keep the
\* lastScaleAction and currentReplicas the object had before the pass; the
\* pass returns the error with the fixed delay.
C38_MissingTarget ==
  TargetNotFound =>
    /\ ScaleReturn.action = Str("deployment not found", <<>>)
    /\ ScaleReturn.replicas = 0
    /\ ScaleReturn.err # Nil
    /\ ScaleReturn.calls = <<Call("Get Deployment", "NotFound")>>
    /\ ScaleReturn.deployments = rec.deploymentsBefore
    /\ ~Called("Update Deployment")
    /\ deployments = rec.deploymentsBefore
    /\ ~deployments[TargetKey(rec.before.spec)].exists
    /\ rec.err = ScaleReturn.err
    /\ rec.result = Delayed
    /\ rec.submitted.lastScaleAction = rec.before.status.lastScaleAction
    /\ rec.submitted.currentReplicas = rec.before.status.currentReplicas
    /\ ws[rec.name].status.lastScaleAction = rec.before.status.lastScaleAction
    /\ ws[rec.name].status.currentReplicas = rec.before.status.currentReplicas

\* A pass scaled the target to 2 replicas, another actor deleted the target,
\* and the next pass found it missing: the status still tells of the earlier
\* scaling and of 2 replicas.
C38_Witness ==
  /\ TargetNotFound
  /\ ~deployments[TargetKey(rec.before.spec)].exists
  /\ ws[rec.name].status.lastScaleAction \notin {EmptyStr, Str("deployment not found", <<>>)}
  /\ ws[rec.name].status.currentReplicas = 2
  /\ HasCondition(ws[rec.name].status.conditions, ConditionTypeReady, "False", "ScaleError")

============================================================================
